---- MODULE Spec2Model ----
(***************************************************************************)
(* Model of the entity REST client                                         *)
(* (src/src/api/worker/rest/EntityRestClient.js).                          *)
(*                                                                         *)
(* One call of the client is in progress at a time, except in the          *)
(* specification of two concurrent calls, where a second call is suspended *)
(* at an await while the first runs.  Every await of the                   *)
(* source on a collaborator (transport, crypto facade, instance mapper) is *)
(* a step of its own; the collaborator's answer is chosen                  *)
(* nondeterministically.  promiseMap is used without a concurrency option  *)
(* in setupMultiple and loadMultiple: the mapper runs for one item at a    *)
(* time, in input order, results are kept in input order, and the first    *)
(* rejection rejects the whole map.  With {concurrency: 5}, in             *)
(* _handleLoadMultipleResult, the mappers of up to five items run at the   *)
(* same time and their steps interleave.                                   *)
(***************************************************************************)
EXTENDS Integers, Sequences, FiniteSets, TLC

(***************************************************************************)
(* Bounds of the model.                                                    *)
(***************************************************************************)
\* largest number of instances handed to setupMultiple
MaxInstances == 4
\* chunk size of setupMultiple, scaled down
POST_MULTIPLE_LIMIT == 2
\* largest number of element ids handed to loadMultiple
MaxIds == 4
\* chunk size of loadMultiple, scaled down
LOAD_MULTIPLE_LIMIT == 2
\* largest count handed to loadRange
MaxCount == 2
\* largest number of instances the server stores in the specification of
\* the round trip
MaxStored == 2
\* number of instances the server answers to the range request of the
\* specification of the bulk decoding, above the limit of its promiseMap
BulkCount == 6
\* largest number of instances handed to each of two concurrent calls of
\* setupMultiple
ConcurrentCount == 1

(***************************************************************************)
(* JavaScript values.                                                      *)
(***************************************************************************)
null == "null"
undefined == "undefined"

\* `if (x)`, `!x` and Boolean(x) on a string, null or undefined
Truthy(x) == x \notin {null, undefined, ""}

Min(a, b) == IF a < b THEN a ELSE b

\* {} as Params.  A null or undefined Params argument is written EmptyParams
\* as well: the client only uses such an argument in `queryParameters ?? {}`
\* and as a source of Object.assign, which skips null and undefined.
EmptyParams == [k \in {} |-> ""]

\* Object.assign({}, a, b)
ObjectAssign(a, b) ==
    [k \in (DOMAIN a) \cup (DOMAIN b) |-> IF k \in DOMAIN b THEN b[k] ELSE a[k]]

\* xs.filter(Boolean)
FilterBoolean(xs) == SelectSeq(xs, Truthy)

RECURSIVE flat(_)
\* flat(chunks): concatenation of the chunks in order
flat(chunks) == IF chunks = <<>> THEN <<>> ELSE Head(chunks) \o flat(Tail(chunks))

\* splitInChunks(chunkSize, array): consecutive slices of at most chunkSize
splitInChunks(chunkSize, array) ==
    IF chunkSize < 1 THEN <<>>
    ELSE LET n == (Len(array) + chunkSize - 1) \div chunkSize
         IN [c \in 1..n |-> SubSeq(array, (c - 1) * chunkSize + 1, Min(c * chunkSize, Len(array)))]

(***************************************************************************)
(* Types.                                                                  *)
(***************************************************************************)
ElementType == "ELEMENT_TYPE"
ListElementType == "LIST_ELEMENT_TYPE"
AggregatedType == "AGGREGATED_TYPE"

PushIdentifierTypeRef == [app |-> "sys", type |-> "PushIdentifier"]

TypeRefs ==
    { [app |-> "tutanota", type |-> "Mail"],
      [app |-> "sys", type |-> "Customer"],
      PushIdentifierTypeRef,
      [app |-> "tutanota", type |-> "MailAddress"] }

\* isSameTypeRef(typeRef1, typeRef2)
isSameTypeRef(typeRef1, typeRef2) == typeRef1.app = typeRef2.app /\ typeRef1.type = typeRef2.type

\* resolveTypeReference(typeRef): the TypeModel of the type
resolveTypeReference(typeRef) ==
    CASE typeRef.type = "Mail" -> [type |-> ListElementType, version |-> "46"]
      [] typeRef.type = "Customer" -> [type |-> ElementType, version |-> "68"]
      [] typeRef.type = "PushIdentifier" -> [type |-> ListElementType, version |-> "68"]
      [] OTHER -> [type |-> AggregatedType, version |-> "46"]

\* _verifyType(typeModel) does not throw
_verifyType(typeModel) == typeModel.type \in {ElementType, ListElementType}

\* typeRef.type.toLowerCase()
toLowerCase(s) ==
    CASE s = "Mail" -> "mail"
      [] s = "Customer" -> "customer"
      [] s = "PushIdentifier" -> "pushidentifier"
      [] s = "MailAddress" -> "mailaddress"
      [] OTHER -> s

\* typeRefToPath with the name of the type as it is written
typeRefToPath_KeepsCase(typeRef) == <<"rest", typeRef.app, typeRef.type>>

\* typeRefToPath(typeRef), as the list of its segments
typeRefToPath(typeRef) == <<"rest", typeRef.app, toLowerCase(typeRef.type)>>

(***************************************************************************)
(* Errors.  An error caught by setupMultiple carries the place that raised *)
(* it, which stands for the identity of the error object: the chunk, and   *)
(* the instance when a single setup raised it (0 otherwise).               *)
(***************************************************************************)
NotAuthenticatedError == "NotAuthenticatedError"
PayloadTooLargeError == "PayloadTooLargeError"
ConnectionError == "ConnectionError"
CryptoError == "CryptoError"
TypeResolutionError == "Error: only Element and ListElement types are permitted"
ListIdMissingError == "Error: List id must be defined for LETs"
ListIdGivenError == "Error: List id must not be defined for ETs"
SetupMultipleError == "SetupMultipleError"
SessionKeyNotFoundError == "SessionKeyNotFoundError"
OnlyListElementError == "Error: only ListElement types are permitted"
IdMissingError == "Error: Id must be defined"
NotFoundError == "NotFoundError"

\* errors the transport raises for a request
RestErrors == {PayloadTooLargeError, ConnectionError}

\* the caller-contract errors of the client
UsageErrors == {TypeResolutionError, ListIdMissingError, ListIdGivenError,
                OnlyListElementError, IdMissingError}

MkError(name, chunk, instance) == [name |-> name, chunk |-> chunk, instance |-> instance]

\* no error: the promise is fulfilled
NoError == MkError(null, 0, 0)

(***************************************************************************)
(* Request preparation.                                                    *)
(***************************************************************************)
NoPrepared ==
    [error |-> null, path |-> <<>>, queryParams |-> EmptyParams,
     headers |-> EmptyParams, typeModel |-> [type |-> null, version |-> null]]

\* _validateAndPrepareRestRequest without the check for empty headers
_validateAndPrepareRestRequest_NoAuthCheck(typeRef, listId, elementId, queryParameters, extraHeaders, authHeaders) ==
    LET typeModel == resolveTypeReference(typeRef)
        path0 == typeRefToPath(typeRef)
        path1 == IF Truthy(listId) THEN Append(path0, listId) ELSE path0
        path == IF Truthy(elementId) THEN Append(path1, elementId) ELSE path1
        headers == ObjectAssign(authHeaders, extraHeaders)
    IN IF ~_verifyType(typeModel)
       THEN [NoPrepared EXCEPT !.error = TypeResolutionError]
       ELSE [error |-> null,
             path |-> path,
             queryParams |-> queryParameters,
             headers |-> [k \in (DOMAIN headers) \cup {"v"} |->
                             IF k = "v" THEN typeModel.version ELSE headers[k]],
             typeModel |-> typeModel]

\* _validateAndPrepareRestRequest keeping a v that the merged headers bring
_validateAndPrepareRestRequest_KeepsGivenVersion(typeRef, listId, elementId, queryParameters, extraHeaders, authHeaders) ==
    LET typeModel == resolveTypeReference(typeRef)
        path0 == typeRefToPath(typeRef)
        path1 == IF Truthy(listId) THEN Append(path0, listId) ELSE path0
        path == IF Truthy(elementId) THEN Append(path1, elementId) ELSE path1
        headers == ObjectAssign(authHeaders, extraHeaders)
    IN IF ~_verifyType(typeModel)
       THEN [NoPrepared EXCEPT !.error = TypeResolutionError]
       ELSE IF Cardinality(DOMAIN headers) = 0
       THEN [NoPrepared EXCEPT !.error = NotAuthenticatedError]
       ELSE [error |-> null,
             path |-> path,
             queryParams |-> queryParameters,
             headers |-> [k \in (DOMAIN headers) \cup {"v"} |->
                             IF k \in DOMAIN headers THEN headers[k] ELSE typeModel.version],
             typeModel |-> typeModel]

\* _validateAndPrepareRestRequest merging the headers the other way round:
\* the headers of the provider win over the extra headers
_validateAndPrepareRestRequest_AuthWins(typeRef, listId, elementId, queryParameters, extraHeaders, authHeaders) ==
    LET typeModel == resolveTypeReference(typeRef)
        path0 == typeRefToPath(typeRef)
        path1 == IF Truthy(listId) THEN Append(path0, listId) ELSE path0
        path == IF Truthy(elementId) THEN Append(path1, elementId) ELSE path1
        headers == ObjectAssign(extraHeaders, authHeaders)
    IN IF ~_verifyType(typeModel)
       THEN [NoPrepared EXCEPT !.error = TypeResolutionError]
       ELSE IF Cardinality(DOMAIN headers) = 0
       THEN [NoPrepared EXCEPT !.error = NotAuthenticatedError]
       ELSE [error |-> null,
             path |-> path,
             queryParams |-> queryParameters,
             headers |-> [k \in (DOMAIN headers) \cup {"v"} |->
                             IF k = "v" THEN typeModel.version ELSE headers[k]],
             typeModel |-> typeModel]

\* _validateAndPrepareRestRequest; authHeaders is what the provider returns
_validateAndPrepareRestRequest(typeRef, listId, elementId, queryParameters, extraHeaders, authHeaders) ==
    LET typeModel == resolveTypeReference(typeRef)
        path0 == typeRefToPath(typeRef)
        path1 == IF Truthy(listId) THEN Append(path0, listId) ELSE path0
        path == IF Truthy(elementId) THEN Append(path1, elementId) ELSE path1
        queryParams == queryParameters
        headers == ObjectAssign(authHeaders, extraHeaders)
    IN IF ~_verifyType(typeModel)
       THEN [NoPrepared EXCEPT !.error = TypeResolutionError]
       ELSE IF Cardinality(DOMAIN headers) = 0
       THEN [NoPrepared EXCEPT !.error = NotAuthenticatedError]
       ELSE [error |-> null,
             path |-> path,
             queryParams |-> queryParams,
             headers |-> [k \in (DOMAIN headers) \cup {"v"} |->
                             IF k = "v" THEN typeModel.version ELSE headers[k]],
             typeModel |-> typeModel]

\* the check of the list id without its else branch
CheckListId_OnlyForListElements(typeModel, listId) ==
    IF typeModel.type = ListElementType /\ ~Truthy(listId) THEN ListIdMissingError ELSE null

\* the check of the list id against the shape of the type in setup and
\* setupMultiple; null when the check passes
CheckListId(typeModel, listId) ==
    IF typeModel.type = ListElementType
    THEN (IF ~Truthy(listId) THEN ListIdMissingError ELSE null)
    ELSE (IF Truthy(listId) THEN ListIdGivenError ELSE null)

(***************************************************************************)
(* State.                                                                  *)
(***************************************************************************)
VARIABLES
    pc,          \* position of the call in progress
    call,        \* the operation in progress and its arguments
    prepared,    \* what _validateAndPrepareRestRequest returned to the operation
    ld,          \* locals of load, loadRange, loadMultiple and update, the
                 \* answers of the server to their GETs, the calls of load
                 \* and update to their collaborators, in order, and how
                 \* resolveSessionKey settled for the instances of an answer
                 \* (outcomes) and of the answers decoded before (settled)
    sm,          \* locals of setupMultiple
    su,          \* locals of setup (called directly or by setupMultiple)
    requests,    \* the requests handed to this._restClient.request, in order
    responses,   \* how this._restClient.request settled for each of them:
                 \* "ok" or the error it rejected with
    minted,      \* the instances given to setNewOwnerEncSessionKey, in order
    created,     \* the instances the server has created, in creation order
    server,      \* what the server stores: the posted entities by resource path
    result,      \* how the call settled
    chunkFate,   \* per chunk of setupMultiple: how its batch attempt ended
    setupCalls,  \* the instances setupMultiple has called this.setup for
    failed,      \* the instances whose creation has failed for good
    other        \* the locals and the position of a second call on the same
                 \* client, suspended at an await while this one runs

vars == <<pc, call, prepared, ld, sm, su, requests, responses, minted, created, server,
          result, chunkFate, setupCalls, failed, other>>

\* list ids a caller passes: none, the empty string, a list id
ListIds == {null, "", "listA"}

\* what the authentication provider returns
AuthHeaders == {EmptyParams, [accessToken |-> "tokenA"],
                [accessToken |-> "tokenA", v |-> "0"]}

\* extra headers a caller passes
ExtraHeaders == {EmptyParams, [accessToken |-> "tokenX"], [v |-> "1"]}

\* the id the server generates for the k-th instance it creates
GeneratedId(k) == "id" \o ToString(k)

NoCall == [op |-> "none", typeRef |-> [app |-> "", type |-> ""], listId |-> null,
           instances |-> <<>>, extraHeaders |-> EmptyParams, id |-> <<>>,
           elementIds |-> <<>>, count |-> 0, reverse |-> FALSE, batch |-> <<>>,
           authHeaders |-> EmptyParams]

NoResult == [status |-> "pending", id |-> undefined, ids |-> <<>>, error |-> null,
             errors |-> <<>>, failedInstances |-> <<>>, entities |-> <<>>,
             batch |-> <<>>]

NoLd == [chunk |-> 0, json |-> <<>>, sessionKey |-> null, loadedChunks |-> <<>>,
         answers |-> <<>>, log |-> <<>>, stage |-> <<>>, keys |-> <<>>, outcomes |-> <<>>,
         settled |-> <<>>]

NoSm == [chunk |-> 0, errors |-> <<>>, failedInstances |-> <<>>, idChunks |-> <<>>,
         fb |-> 0, returnedIds |-> <<>>]

NoSu == [listId |-> null, instance |-> 0, prepared |-> NoPrepared,
         extraHeaders |-> EmptyParams, authHeaders |-> EmptyParams, entity |-> <<>>]

\* a call that has not started: what `other` holds while one call runs alone
NoOther == [pc |-> "idle", call |-> NoCall, prepared |-> NoPrepared, ld |-> NoLd,
            sm |-> NoSm, su |-> NoSu, result |-> NoResult, chunkFate |-> <<>>,
            setupCalls |-> <<>>, failed |-> {}]

Returned(r) == r.status = "returned"
Thrown(r) == r.status = "thrown"

Init ==
    /\ pc = "idle"
    /\ call = NoCall
    /\ prepared = NoPrepared
    /\ ld = NoLd
    /\ sm = NoSm
    /\ su = NoSu
    /\ requests = <<>>
    /\ responses = <<>>
    /\ minted = <<>>
    /\ created = <<>>
    /\ server = <<>>
    /\ result = NoResult
    /\ chunkFate = <<>>
    /\ setupCalls = <<>>
    /\ failed = {}
    /\ other = NoOther

\* the i-th instance a caller hands to setup or setupMultiple: a new
\* instance, without an id and without an owner key, and its values
Instance(i) == [id |-> null, data |-> "data" \o ToString(i), ownerKey |-> null]

\* the session key this._crypto.setNewOwnerEncSessionKey(typeModel, instance)
\* mints for the i-th instance and returns
setNewOwnerEncSessionKey(i) == "key" \o ToString(i)

\* the i-th instance after setNewOwnerEncSessionKey, which records the key it
\* mints on the instance
MintedInstance(i) == [Instance(i) EXCEPT !.ownerKey = setNewOwnerEncSessionKey(i)]

\* this._instanceMapper.encryptAndMapToLiteral(typeModel, instance, sk): the
\* values of the instance encrypted under sk, next to its id and owner key
encryptAndMapToLiteral(typeModel, instance, sk) ==
    [id |-> instance.id, migrated |-> FALSE, ownerKey |-> instance.ownerKey,
     cipher |-> [plain |-> instance.data, key |-> sk]]

\* what the server stores for an instance it creates: the posted entity,
\* under the path of the POST extended by the id it generates
Stored(path, generatedId, typeRef, listId, instance, entity) ==
    [path |-> Append(path, generatedId), id |-> generatedId, typeRef |-> typeRef,
     listId |-> listId, instance |-> instance, entity |-> entity]

\* a request as this._restClient.request receives it
Request(method, path, queryParams, headers, body) ==
    [method |-> method, path |-> path, queryParams |-> queryParams,
     headers |-> headers, body |-> body]

(***************************************************************************)
(* setupMultiple                                                           *)
(***************************************************************************)
\* const instanceChunks = splitInChunks(POST_MULTIPLE_LIMIT, instances)
instanceChunks == splitInChunks(POST_MULTIPLE_LIMIT, call.instances)

\* the chunk the mapper of setupMultiple is working on
instanceChunk == instanceChunks[sm.chunk]

\* the ids of the chunks collected in the reverse order
ChunkReturned_Reversed(s, ids) ==
    /\ sm' = [s EXCEPT !.idChunks = <<ids>> \o s.idChunks,
                       !.chunk = s.chunk + 1, !.fb = 0, !.returnedIds = <<>>]
    /\ pc' = IF s.chunk < Len(instanceChunks) THEN "sm_encrypt" ELSE "sm_finish"

\* the mapper returned ids for the current chunk: the outer promiseMap goes to
\* the next chunk, or resolves after the last one
ChunkReturned(s, ids) ==
    /\ sm' = [s EXCEPT !.idChunks = Append(s.idChunks, ids),
                       !.chunk = s.chunk + 1, !.fb = 0, !.returnedIds = <<>>]
    /\ pc' = IF s.chunk < Len(instanceChunks) THEN "sm_encrypt" ELSE "sm_finish"

\* the failed chunk recorded by its first instance only
ChunkFailed_FirstInstance(e) ==
    /\ ChunkReturned([sm EXCEPT !.errors = Append(sm.errors, e),
                                !.failedInstances = Append(sm.failedInstances, instanceChunk[1])],
                     <<>>)
    /\ chunkFate' = Append(chunkFate, "failed")
    /\ failed' = failed \cup {instanceChunk[j] : j \in 1..Len(instanceChunk)}

\* the failed chunk recorded by its error alone
ChunkFailed_RecordsNoInstance(e) ==
    /\ ChunkReturned([sm EXCEPT !.errors = Append(sm.errors, e)], <<>>)
    /\ chunkFate' = Append(chunkFate, "failed")
    /\ failed' = failed \cup {instanceChunk[j] : j \in 1..Len(instanceChunk)}

\* catch (e), e not a PayloadTooLargeError: the whole chunk has failed
ChunkFailed(e) ==
    /\ ChunkReturned([sm EXCEPT !.errors = Append(sm.errors, e),
                                !.failedInstances = sm.failedInstances \o instanceChunk],
                     <<>>)
    /\ chunkFate' = Append(chunkFate, "failed")
    /\ failed' = failed \cup {instanceChunk[j] : j \in 1..Len(instanceChunk)}

\* setupMultiple, called with the instances, up to its first await that
\* reaches a collaborator
SetupMultipleStarts(listId, typeRef, instances, authHeaders) ==
    /\ pc = "idle"
    /\ call' = [NoCall EXCEPT !.op = "setupMultiple", !.typeRef = typeRef,
                              !.listId = listId, !.instances = instances,
                              !.authHeaders = authHeaders]
    /\ UNCHANGED <<ld, su, requests, responses, other, minted, created, server, chunkFate,
                   setupCalls, failed>>
    /\ IF Len(instances) < 1
       THEN /\ result' = [NoResult EXCEPT !.status = "returned", !.ids = <<>>]
            /\ pc' = "done"
            /\ UNCHANGED <<prepared, sm>>
       ELSE LET p == _validateAndPrepareRestRequest(typeRef, listId, null, EmptyParams, EmptyParams, authHeaders)
                e == CheckListId(p.typeModel, listId)
            IN /\ prepared' = p
               /\ IF p.error # null
                  THEN /\ result' = [NoResult EXCEPT !.status = "thrown", !.error = p.error]
                       /\ pc' = "done"
                       /\ sm' = sm
                  ELSE IF e # null
                  THEN /\ result' = [NoResult EXCEPT !.status = "thrown", !.error = e]
                       /\ pc' = "done"
                       /\ sm' = sm
                  ELSE /\ result' = result
                       /\ pc' = "sm_encrypt"
                       /\ sm' = [NoSm EXCEPT !.chunk = 1]

\* setupMultiple preparing the request before it looks at the count
SetupMultipleCall_PreparesFirst(listId, typeRef, n, authHeaders) ==
    /\ pc = "idle"
    /\ call' = [NoCall EXCEPT !.op = "setupMultiple", !.typeRef = typeRef,
                              !.listId = listId, !.instances = [i \in 1..n |-> i],
                              !.authHeaders = authHeaders]
    /\ UNCHANGED <<ld, su, requests, responses, other, minted, created, server, chunkFate, setupCalls, failed>>
    /\ LET p == _validateAndPrepareRestRequest(typeRef, listId, null, EmptyParams, EmptyParams, authHeaders)
           e == CheckListId(p.typeModel, listId)
       IN /\ prepared' = p
          /\ IF p.error # null
             THEN /\ result' = [NoResult EXCEPT !.status = "thrown", !.error = p.error]
                  /\ pc' = "done"
                  /\ sm' = sm
             ELSE IF e # null
             THEN /\ result' = [NoResult EXCEPT !.status = "thrown", !.error = e]
                  /\ pc' = "done"
                  /\ sm' = sm
             ELSE IF n < 1
             THEN /\ result' = [NoResult EXCEPT !.status = "returned", !.ids = <<>>]
                  /\ pc' = "done"
                  /\ sm' = sm
             ELSE /\ result' = result
                  /\ pc' = "sm_encrypt"
                  /\ sm' = [NoSm EXCEPT !.chunk = 1]

\* a caller calls setupMultiple with n instances
SetupMultipleCall(listId, typeRef, n, authHeaders) ==
    SetupMultipleStarts(listId, typeRef, [i \in 1..n |-> i], authHeaders)

\* the inner promiseMap of the try block: a new owner key for and the
\* encryption of each instance of the chunk, one after the other; k is the
\* position of the instance whose encryption fails, if any
SetupMultipleEncrypt(k) ==
    /\ pc = "sm_encrypt"
    /\ k \in 1..(Len(instanceChunk) + 1)
    /\ minted' = minted \o SubSeq(instanceChunk, 1, Min(k, Len(instanceChunk)))
    /\ UNCHANGED <<call, prepared, ld, su, requests, responses, other, created, server, result, setupCalls>>
    /\ IF k <= Len(instanceChunk)
       THEN ChunkFailed(MkError(CryptoError, sm.chunk, 0))
       ELSE /\ pc' = "sm_post"
            /\ UNCHANGED <<sm, chunkFate, failed>>

\* the encrypted entities of the chunk, as the inner promiseMap returns them
encryptedEntities ==
    [j \in 1..Len(instanceChunk) |->
        encryptAndMapToLiteral(prepared.typeModel, MintedInstance(instanceChunk[j]),
                               setNewOwnerEncSessionKey(instanceChunk[j]))]

\* the POST of the chunk and what the server answers
SetupMultiplePost(answer) ==
    /\ pc = "sm_post"
    /\ answer \in {"ok"} \cup RestErrors
    /\ other' = other
    /\ responses' = Append(responses, answer)
    /\ requests' = Append(requests,
           Request("POST", prepared.path, [count |-> ToString(Len(instanceChunk))],
                   prepared.headers, encryptedEntities))
    /\ UNCHANGED <<call, prepared, ld, su, minted, result, setupCalls>>
    /\ CASE answer = "ok" ->
              /\ created' = created \o instanceChunk
              /\ server' = server \o
                     [j \in 1..Len(instanceChunk) |->
                         Stored(prepared.path, GeneratedId(Len(server) + j), call.typeRef,
                                call.listId, instanceChunk[j], encryptedEntities[j])]
              /\ ChunkReturned(sm, [j \in 1..Len(instanceChunk) |-> GeneratedId(Len(server) + j)])
              /\ chunkFate' = Append(chunkFate, "ok")
              /\ failed' = failed
         [] answer = PayloadTooLargeError ->
              /\ sm' = [sm EXCEPT !.fb = 1, !.returnedIds = <<>>]
              /\ pc' = "sm_fallback"
              /\ chunkFate' = Append(chunkFate, "tooLarge")
              /\ UNCHANGED <<created, server, failed>>
         [] OTHER ->
              /\ ChunkFailed(MkError(answer, sm.chunk, 0))
              /\ UNCHANGED <<created, server>>

\* setupMultiple returning the ids it has whenever it has some
SetupMultipleFinish_ReturnsPartial ==
    /\ pc = "sm_finish"
    /\ pc' = "done"
    /\ result' = IF Len(sm.errors) # 0 /\ flat(sm.idChunks) = <<>>
                 THEN [NoResult EXCEPT !.status = "thrown", !.error = SetupMultipleError,
                                       !.errors = sm.errors,
                                       !.failedInstances = sm.failedInstances]
                 ELSE [NoResult EXCEPT !.status = "returned", !.ids = flat(sm.idChunks)]
    /\ UNCHANGED <<call, prepared, ld, sm, su, requests, responses, other, minted, created, server, chunkFate,
                   setupCalls, failed>>

\* setupMultiple undoing what the server has created before it fails
SetupMultipleFinish_RollsBack ==
    /\ pc = "sm_finish"
    /\ pc' = "done"
    /\ result' = IF Len(sm.errors) # 0
                 THEN [NoResult EXCEPT !.status = "thrown", !.error = SetupMultipleError,
                                       !.errors = sm.errors,
                                       !.failedInstances = sm.failedInstances]
                 ELSE [NoResult EXCEPT !.status = "returned", !.ids = flat(sm.idChunks)]
    /\ created' = IF Len(sm.errors) # 0 THEN <<>> ELSE created
    /\ server' = IF Len(sm.errors) # 0 THEN <<>> ELSE server
    /\ UNCHANGED <<call, prepared, ld, sm, su, requests, responses, other, minted, chunkFate,
                   setupCalls, failed>>

\* if (errors.length) throw new SetupMultipleError(...) else return flat(idChunks)
SetupMultipleFinish ==
    /\ pc = "sm_finish"
    /\ pc' = "done"
    /\ result' = IF Len(sm.errors) # 0
                 THEN [NoResult EXCEPT !.status = "thrown", !.error = SetupMultipleError,
                                       !.errors = sm.errors,
                                       !.failedInstances = sm.failedInstances]
                 ELSE [NoResult EXCEPT !.status = "returned", !.ids = flat(sm.idChunks)]
    /\ UNCHANGED <<call, prepared, ld, sm, su, requests, responses, other, minted, created, server, chunkFate,
                   setupCalls, failed>>

(***************************************************************************)
(* setup                                                                   *)
(***************************************************************************)
\* the catch of the fallback recording the error without the instance
SetupSettles_ForgetsInstance(nested, instance, id, e) ==
    IF ~nested
    THEN /\ pc' = "done"
         /\ result' = IF e = NoError
                      THEN [NoResult EXCEPT !.status = "returned", !.id = id]
                      ELSE [NoResult EXCEPT !.status = "thrown", !.error = e.name]
         /\ UNCHANGED <<sm, failed>>
    ELSE LET s == IF e = NoError
                  THEN [sm EXCEPT !.returnedIds = Append(sm.returnedIds, id)]
                  ELSE [sm EXCEPT !.returnedIds = Append(sm.returnedIds, undefined),
                                  !.errors = Append(sm.errors, e)]
         IN /\ result' = result
            /\ failed' = IF e = NoError THEN failed ELSE failed \cup {instance}
            /\ IF sm.fb < Len(instanceChunk)
               THEN /\ sm' = [s EXCEPT !.fb = sm.fb + 1]
                    /\ pc' = "sm_fallback"
               ELSE ChunkReturned(s, FilterBoolean(s.returnedIds))

\* the fallback returning no ids for its chunk
SetupSettles_DropsIds(nested, instance, id, e) ==
    IF ~nested
    THEN /\ pc' = "done"
         /\ result' = IF e = NoError
                      THEN [NoResult EXCEPT !.status = "returned", !.id = id]
                      ELSE [NoResult EXCEPT !.status = "thrown", !.error = e.name]
         /\ UNCHANGED <<sm, failed>>
    ELSE LET s == IF e = NoError
                  THEN [sm EXCEPT !.returnedIds = Append(sm.returnedIds, id)]
                  ELSE [sm EXCEPT !.returnedIds = Append(sm.returnedIds, undefined),
                                  !.errors = Append(sm.errors, e),
                                  !.failedInstances = Append(sm.failedInstances, instance)]
         IN /\ result' = result
            /\ failed' = IF e = NoError THEN failed ELSE failed \cup {instance}
            /\ IF sm.fb < Len(instanceChunk)
               THEN /\ sm' = [s EXCEPT !.fb = sm.fb + 1]
                    /\ pc' = "sm_fallback"
               ELSE ChunkReturned(s, <<>>)

\* the promise of setup settles, with the id or with the error e.  Called
\* directly, that is the result of the call.  Called by the fallback of
\* setupMultiple, .catch records the error and the instance and yields
\* undefined; after the last instance of the chunk the mapper returns
\* returnedIds.filter(Boolean).
SetupSettles(nested, instance, id, e) ==
    IF ~nested
    THEN /\ pc' = "done"
         /\ result' = IF e = NoError
                      THEN [NoResult EXCEPT !.status = "returned", !.id = id]
                      ELSE [NoResult EXCEPT !.status = "thrown", !.error = e.name]
         /\ UNCHANGED <<sm, failed>>
    ELSE LET s == IF e = NoError
                  THEN [sm EXCEPT !.returnedIds = Append(sm.returnedIds, id)]
                  ELSE [sm EXCEPT !.returnedIds = Append(sm.returnedIds, undefined),
                                  !.errors = Append(sm.errors, e),
                                  !.failedInstances = Append(sm.failedInstances, instance)]
         IN /\ result' = result
            /\ failed' = IF e = NoError THEN failed ELSE failed \cup {instance}
            /\ IF sm.fb < Len(instanceChunk)
               THEN /\ sm' = [s EXCEPT !.fb = sm.fb + 1]
                    /\ pc' = "sm_fallback"
               ELSE ChunkReturned(s, FilterBoolean(s.returnedIds))

\* setup up to its first await that reaches the mapper: request
\* preparation, the check of the list id, the new owner key
SetupBegins(nested, typeRef, listId, instance, extraHeaders, authHeaders) ==
    LET p == _validateAndPrepareRestRequest(typeRef, listId, null, EmptyParams, extraHeaders, authHeaders)
        e == CheckListId(p.typeModel, listId)
    IN /\ su' = [listId |-> listId, instance |-> instance, prepared |-> p,
                 extraHeaders |-> extraHeaders, authHeaders |-> authHeaders,
                 entity |-> <<>>]
       /\ IF p.error # null
          THEN /\ SetupSettles(nested, instance, undefined, MkError(p.error, sm.chunk, instance))
               /\ minted' = minted
          ELSE IF e # null
          THEN /\ SetupSettles(nested, instance, undefined, MkError(e, sm.chunk, instance))
               /\ minted' = minted
          ELSE /\ minted' = Append(minted, instance)
               /\ pc' = "su_encrypt"
               /\ UNCHANGED <<sm, result, failed>>

\* a caller calls setup
SetupCall(listId, typeRef, instance, extraHeaders, authHeaders) ==
    /\ pc = "idle"
    /\ call' = [NoCall EXCEPT !.op = "setup", !.typeRef = typeRef, !.listId = listId,
                              !.instances = <<instance>>, !.extraHeaders = extraHeaders,
                              !.authHeaders = authHeaders]
    /\ SetupBegins(FALSE, typeRef, listId, instance, extraHeaders, authHeaders)
    /\ UNCHANGED <<prepared, ld, requests, responses, other, created, server, chunkFate, setupCalls>>

\* the fallback of setupMultiple calls this.setup(listId, instance) for the
\* next instance of the chunk
SetupMultipleFallback(authHeaders) ==
    /\ pc = "sm_fallback"
    /\ call' = call
    /\ setupCalls' = Append(setupCalls, instanceChunk[sm.fb])
    /\ SetupBegins(TRUE, call.typeRef, call.listId, instanceChunk[sm.fb], EmptyParams, authHeaders)
    /\ UNCHANGED <<prepared, ld, requests, responses, other, created, server, chunkFate>>

\* setup encrypting under a key that is not the one it has minted
SetupEncrypt_UnderAnotherKey(ok) ==
    /\ pc = "su_encrypt"
    /\ IF ok
       THEN /\ pc' = "su_post"
            /\ su' = [su EXCEPT !.entity =
                         <<encryptAndMapToLiteral(su.prepared.typeModel,
                                                  MintedInstance(su.instance),
                                                  setNewOwnerEncSessionKey(0))>>]
            /\ UNCHANGED <<sm, result, failed>>
       ELSE /\ SetupSettles(call.op = "setupMultiple", su.instance, undefined, MkError(CryptoError, sm.chunk, su.instance))
            /\ su' = su
    /\ UNCHANGED <<call, prepared, ld, requests, responses, other, minted, created, server, chunkFate, setupCalls>>

\* await this._instanceMapper.encryptAndMapToLiteral(typeModel, instance, sk)
SetupEncrypt(ok) ==
    /\ pc = "su_encrypt"
    /\ IF ok
       THEN /\ pc' = "su_post"
            /\ su' = [su EXCEPT !.entity =
                         <<encryptAndMapToLiteral(su.prepared.typeModel,
                                                  MintedInstance(su.instance),
                                                  setNewOwnerEncSessionKey(su.instance))>>]
            /\ UNCHANGED <<sm, result, failed>>
       ELSE /\ SetupSettles(call.op = "setupMultiple", su.instance, undefined, MkError(CryptoError, sm.chunk, su.instance))
            /\ su' = su
    /\ UNCHANGED <<call, prepared, ld, requests, responses, other, minted, created, server, chunkFate, setupCalls>>

\* a setup of the fallback whose POST is answered with PayloadTooLargeError
\* posting the instance again, once
SetupPost_RetriesTooLarge(answer) ==
    /\ pc = "su_post"
    /\ answer \in {"ok"} \cup RestErrors
    /\ other' = other
    /\ responses' = Append(responses, answer)
    /\ requests' = Append(requests,
           Request("POST", su.prepared.path, su.prepared.queryParams,
                   su.prepared.headers, su.entity))
    /\ IF answer = "ok"
       THEN /\ created' = Append(created, su.instance)
            /\ server' = Append(server,
                     Stored(su.prepared.path, GeneratedId(Len(server) + 1), call.typeRef,
                            su.listId, su.instance, su.entity[1]))
            /\ SetupSettles(call.op = "setupMultiple", su.instance, GeneratedId(Len(server) + 1), NoError)
       ELSE IF /\ answer = PayloadTooLargeError
               /\ call.op = "setupMultiple"
               /\ (requests = <<>> \/ requests[Len(requests)].body # su.entity)
       THEN UNCHANGED <<pc, sm, result, failed, created, server>>
       ELSE /\ UNCHANGED <<created, server>>
            /\ SetupSettles(call.op = "setupMultiple", su.instance, undefined, MkError(answer, sm.chunk, su.instance))
    /\ UNCHANGED <<call, prepared, ld, su, minted, chunkFate, setupCalls>>

\* the POST of the instance and what the server answers
SetupPost(answer) ==
    /\ pc = "su_post"
    /\ answer \in {"ok"} \cup RestErrors
    /\ other' = other
    /\ responses' = Append(responses, answer)
    /\ requests' = Append(requests,
           Request("POST", su.prepared.path, su.prepared.queryParams,
                   su.prepared.headers, su.entity))
    /\ IF answer = "ok"
       THEN /\ created' = Append(created, su.instance)
            /\ server' = Append(server,
                     Stored(su.prepared.path, GeneratedId(Len(server) + 1), call.typeRef,
                            su.listId, su.instance, su.entity[1]))
            /\ SetupSettles(call.op = "setupMultiple", su.instance, GeneratedId(Len(server) + 1), NoError)
       ELSE /\ UNCHANGED <<created, server>>
            /\ SetupSettles(call.op = "setupMultiple", su.instance, undefined, MkError(answer, sm.chunk, su.instance))
    /\ UNCHANGED <<call, prepared, ld, su, minted, chunkFate, setupCalls>>

(***************************************************************************)
(* Loading.                                                                *)
(***************************************************************************)
\* the caller's result is the error e
Throws(e) ==
    /\ pc' = "done"
    /\ result' = [NoResult EXCEPT !.status = "thrown", !.error = e]

\* ids of instances: <<elementId>> for an Id, <<listId, elementId>> for an
\* IdTuple, <<>> for a missing id
InstanceIds == {<<"e1">>, <<"listA", "e1">>}

\* expandId(id)
expandId(id) ==
    IF Len(id) = 1 THEN [listId |-> null, elementId |-> id[1]]
    ELSE [listId |-> id[1], elementId |-> id[2]]

\* the k-th element id
ElementId(k) == "e" \o ToString(k)

\* the instance the server holds under an element id, as parsed from its
\* JSON: its values are encrypted under the key of the instance
WireInstance(elementId) ==
    [id |-> elementId, migrated |-> FALSE, ownerKey |-> "key" \o elementId,
     cipher |-> [plain |-> "data" \o elementId, key |-> "key" \o elementId]]

\* what the server answers to a GET of a resource path: the entity that was
\* posted there, or else the instance it holds from before
ServerEntity(path, elementId) ==
    IF \E k \in 1..Len(server) : server[k].path = path
    THEN server[CHOOSE k \in 1..Len(server) : server[k].path = path].entity
    ELSE WireInstance(elementId)

\* this._crypto.applyMigrations(typeRef, entity)
applyMigrations(typeRef, entity) == [entity EXCEPT !.migrated = TRUE]

\* this._instanceMapper.decryptAndMapToInstance(typeModel, entity, sessionKey):
\* the values decrypt under the key they were encrypted with; a null key
\* sets _errors on the instance and leaves the values out
decryptAndMapToInstance(typeModel, entity, sessionKey) ==
    [id |-> entity.id, migrated |-> entity.migrated, _errors |-> (sessionKey = null),
     data |-> IF sessionKey = entity.cipher.key THEN entity.cipher.plain ELSE null,
     migratedInstance |-> FALSE]

\* this._crypto.applyMigrationsForInstance(instance)
applyMigrationsForInstance(instance) == [instance EXCEPT !.migratedInstance = TRUE]

\* how this._crypto.resolveSessionKey settles: with the key or with an error
ResolveOutcomes == {"sessionKey", SessionKeyNotFoundError, CryptoError}

\* what this._crypto.resolveSessionKey(typeModel, entity) settles with: the
\* owner key recorded on the entity, or the error
resolveSessionKey(entity, outcome) == IF outcome = "sessionKey" THEN entity.ownerKey ELSE outcome

\* a call of load or update to a collaborator, with what it was given and
\* what it answered
Step(name, input, output) == [step |-> name, input |-> input, output |-> output]

\* a catch that turns every error of resolveSessionKey into a null key
CatchSessionKeyNotFound_CatchesEveryError(outcome) ==
    IF outcome \in {SessionKeyNotFoundError, CryptoError} THEN null ELSE outcome

\* .catch(ofClass(SessionKeyNotFoundError, e => null)) on resolveSessionKey
CatchSessionKeyNotFound(outcome) == IF outcome = SessionKeyNotFoundError THEN null ELSE outcome

\* load up to the GET
LoadCall(typeRef, id, extraHeaders, authHeaders) ==
    LET ids == expandId(id)
        p == _validateAndPrepareRestRequest(typeRef, ids.listId, ids.elementId, EmptyParams,
                                            extraHeaders, authHeaders)
    IN /\ pc = "idle"
       /\ call' = [NoCall EXCEPT !.op = "load", !.typeRef = typeRef, !.id = id,
                                 !.extraHeaders = extraHeaders,
                                 !.authHeaders = authHeaders]
       /\ prepared' = p
       /\ IF p.error # null THEN Throws(p.error) ELSE pc' = "ld_get" /\ result' = result
       /\ UNCHANGED <<ld, sm, su, requests, responses, other, minted, created, server, chunkFate, setupCalls, failed>>

\* load handing the raw payload to resolveSessionKey
LoadGet_SkipsApplyMigrations(answer) ==
    /\ pc = "ld_get"
    /\ answer \in {"ok", NotFoundError} \cup RestErrors
    /\ other' = other
    /\ responses' = Append(responses, answer)
    /\ requests' = Append(requests,
           Request("GET", prepared.path, prepared.queryParams, prepared.headers, <<>>))
    /\ IF answer = "ok"
       THEN /\ LET entity == ServerEntity(prepared.path, expandId(call.id).elementId)
               IN ld' = [ld EXCEPT !.json = <<entity>>,
                                   !.log = Append(ld.log, Step("GET", <<>>, entity))]
            /\ pc' = "ld_key"
            /\ result' = result
       ELSE /\ Throws(answer)
            /\ ld' = ld
    /\ UNCHANGED <<call, prepared, sm, su, minted, created, server, chunkFate, setupCalls, failed>>

\* the GET of load and JSON.parse of the answer
LoadGet(answer) ==
    /\ pc = "ld_get"
    /\ answer \in {"ok", NotFoundError} \cup RestErrors
    /\ other' = other
    /\ responses' = Append(responses, answer)
    /\ requests' = Append(requests,
           Request("GET", prepared.path, prepared.queryParams, prepared.headers, <<>>))
    /\ IF answer = "ok"
       THEN /\ LET entity == ServerEntity(prepared.path, expandId(call.id).elementId)
               IN ld' = [ld EXCEPT !.json = <<entity>>,
                                   !.log = Append(ld.log, Step("GET", <<>>, entity))]
            /\ pc' = "ld_migrate"
            /\ result' = result
       ELSE /\ Throws(answer)
            /\ ld' = ld
    /\ UNCHANGED <<call, prepared, sm, su, minted, created, server, chunkFate, setupCalls, failed>>

\* const migratedEntity = await this._crypto.applyMigrations(typeRef, entity)
LoadApplyMigrations ==
    /\ pc = "ld_migrate"
    /\ LET migratedEntity == applyMigrations(call.typeRef, ld.json[1])
       IN ld' = [ld EXCEPT !.json = <<migratedEntity>>,
                           !.log = Append(ld.log, Step("applyMigrations", ld.json[1],
                                                       migratedEntity))]
    /\ pc' = "ld_key"
    /\ UNCHANGED <<call, prepared, sm, su, requests, responses, other, minted, created, server, result, chunkFate,
                   setupCalls, failed>>

\* const sessionKey = await this._crypto.resolveSessionKey(...).catch(...)
LoadResolveSessionKey(outcome) ==
    /\ pc = "ld_key"
    /\ outcome \in ResolveOutcomes
    /\ LET sessionKey == CatchSessionKeyNotFound(resolveSessionKey(ld.json[1], outcome))
           log == Append(ld.log, Step("resolveSessionKey", ld.json[1], outcome))
       IN IF sessionKey \notin ResolveOutcomes
          THEN /\ ld' = [ld EXCEPT !.sessionKey = sessionKey, !.log = log]
               /\ pc' = "ld_decrypt"
               /\ result' = result
          ELSE /\ Throws(sessionKey)
               /\ ld' = [ld EXCEPT !.log = log]
    /\ UNCHANGED <<call, prepared, sm, su, requests, responses, other, minted, created, server, chunkFate,
                   setupCalls, failed>>

\* const instance = await this._instanceMapper.decryptAndMapToInstance(...)
LoadDecrypt ==
    /\ pc = "ld_decrypt"
    /\ LET instance == decryptAndMapToInstance(prepared.typeModel, ld.json[1], ld.sessionKey)
       IN ld' = [ld EXCEPT !.json = <<instance>>,
                           !.log = Append(ld.log, Step("decryptAndMapToInstance", ld.json[1],
                                                       instance))]
    /\ pc' = "ld_instance"
    /\ UNCHANGED <<call, prepared, sm, su, requests, responses, other, minted, created, server, result, chunkFate,
                   setupCalls, failed>>

\* return this._crypto.applyMigrationsForInstance(instance)
LoadApplyMigrationsForInstance ==
    /\ pc = "ld_instance"
    /\ result' = [NoResult EXCEPT !.status = "returned",
                                  !.entities = <<applyMigrationsForInstance(ld.json[1])>>]
    /\ ld' = [ld EXCEPT !.log = Append(ld.log, Step("applyMigrationsForInstance", ld.json[1],
                                                    applyMigrationsForInstance(ld.json[1])))]
    /\ pc' = "done"
    /\ UNCHANGED <<call, prepared, sm, su, requests, responses, other, minted, created, server, chunkFate,
                   setupCalls, failed>>

\* String(reverse)
BoolString(b) == IF b THEN "true" ELSE "false"

\* loadRange without the check of the type
LoadRangeCall_NoTypeCheck(typeRef, listId, count, reverse, authHeaders) ==
    LET rangeRequestParams == [start |-> ElementId(0), count |-> ToString(count),
                               reverse |-> BoolString(reverse)]
        p == _validateAndPrepareRestRequest(typeRef, listId, null, rangeRequestParams,
                                            EmptyParams, authHeaders)
    IN /\ pc = "idle"
       /\ call' = [NoCall EXCEPT !.op = "loadRange", !.typeRef = typeRef, !.listId = listId,
                                 !.count = count, !.reverse = reverse,
                                 !.authHeaders = authHeaders]
       /\ prepared' = p
       /\ IF p.error # null THEN Throws(p.error)
          ELSE pc' = "lr_get" /\ result' = result
       /\ UNCHANGED <<ld, sm, su, requests, responses, other, minted, created, server, chunkFate, setupCalls, failed>>

\* loadRange up to the GET
LoadRangeCall(typeRef, listId, count, reverse, authHeaders) ==
    LET rangeRequestParams == [start |-> ElementId(0), count |-> ToString(count),
                               reverse |-> BoolString(reverse)]
        p == _validateAndPrepareRestRequest(typeRef, listId, null, rangeRequestParams,
                                            EmptyParams, authHeaders)
    IN /\ pc = "idle"
       /\ call' = [NoCall EXCEPT !.op = "loadRange", !.typeRef = typeRef, !.listId = listId,
                                 !.count = count, !.reverse = reverse,
                                 !.authHeaders = authHeaders]
       /\ prepared' = p
       /\ IF p.error # null THEN Throws(p.error)
          ELSE IF p.typeModel.type # ListElementType THEN Throws(OnlyListElementError)
          ELSE pc' = "lr_get" /\ result' = result
       /\ UNCHANGED <<ld, sm, su, requests, responses, other, minted, created, server, chunkFate, setupCalls, failed>>

\* what the server may answer to a range request: up to count elements of
\* the list, from either end
RangeAnswers(count, reverse) ==
    { [j \in 1..n |-> WireInstance(ElementId(IF reverse THEN MaxCount + 1 - j ELSE j))] :
        n \in 0..Min(count, MaxCount) }

\* the GET of loadRange and JSON.parse of the answer
LoadRangeGet(error, answer) ==
    /\ pc = "lr_get"
    /\ other' = other
    /\ responses' = Append(responses, IF error = null THEN "ok" ELSE error)
    /\ requests' = Append(requests,
           Request("GET", prepared.path, prepared.queryParams, prepared.headers, <<>>))
    /\ IF error = null
       THEN /\ ld' = [ld EXCEPT !.json = answer, !.answers = Append(ld.answers, answer)]
            /\ pc' = "lr_decode"
            /\ result' = result
       ELSE /\ Throws(error)
            /\ ld' = ld
    /\ UNCHANGED <<call, prepared, sm, su, minted, created, server, chunkFate, setupCalls, failed>>

\* all element ids in one chunk
idChunks_OneChunk == <<call.elementIds>>

\* const idChunks = splitInChunks(LOAD_MULTIPLE_LIMIT, elementIds)
idChunks == splitInChunks(LOAD_MULTIPLE_LIMIT, call.elementIds)

\* the chunk the mapper of loadMultiple is working on
idChunk == idChunks[ld.chunk]

RECURSIVE join(_)
\* idChunk.join(",")
join(xs) ==
    IF xs = <<>> THEN ""
    ELSE IF Len(xs) = 1 THEN xs[1]
    ELSE xs[1] \o "," \o join(Tail(xs))

\* loadMultiple up to the first GET
LoadMultipleCall(typeRef, listId, n, authHeaders) ==
    LET p == _validateAndPrepareRestRequest(typeRef, listId, null, EmptyParams, EmptyParams,
                                            authHeaders)
    IN /\ pc = "idle"
       /\ call' = [NoCall EXCEPT !.op = "loadMultiple", !.typeRef = typeRef,
                                 !.listId = listId,
                                 !.elementIds = [i \in 1..n |-> ElementId(i)],
                                 !.authHeaders = authHeaders]
       /\ prepared' = p
       /\ IF p.error # null
          THEN Throws(p.error) /\ ld' = ld
          ELSE IF Len(idChunks') = 0
          THEN /\ result' = [NoResult EXCEPT !.status = "returned", !.entities = <<>>]
               /\ pc' = "done"
               /\ ld' = ld
          ELSE /\ pc' = "lm_get"
               /\ result' = result
               /\ ld' = [NoLd EXCEPT !.chunk = 1]
       /\ UNCHANGED <<sm, su, requests, responses, other, minted, created, server, chunkFate, setupCalls, failed>>

\* the sequences without repetition over the elements of ids, of every length
RECURSIVE Arrangements(_)
Arrangements(ids) ==
    {<<>>} \cup UNION { { <<x>> \o t : t \in Arrangements(ids \ {x}) } : x \in ids }

\* what the server may answer to a request for the ids of a chunk: the
\* instances it holds under these ids, in the order it chooses
MultipleAnswers(chunk) ==
    { [j \in 1..Len(a) |-> WireInstance(a[j])] :
        a \in Arrangements({chunk[j] : j \in 1..Len(chunk)}) }

\* the GET of a chunk of loadMultiple and JSON.parse of the answer
LoadMultipleGet(error, answer) ==
    /\ pc = "lm_get"
    /\ other' = other
    /\ responses' = Append(responses, IF error = null THEN "ok" ELSE error)
    /\ requests' = Append(requests,
           Request("GET", prepared.path, [ids |-> join(idChunk)], prepared.headers, <<>>))
    /\ IF error = null
       THEN /\ ld' = [ld EXCEPT !.json = answer, !.answers = Append(ld.answers, answer)]
            /\ pc' = "lm_decode"
            /\ result' = result
       ELSE /\ Throws(error)
            /\ ld' = ld
    /\ UNCHANGED <<call, prepared, sm, su, minted, created, server, chunkFate, setupCalls, failed>>

\* _handleLoadMultipleResult(typeRef, loadedEntities) with the session keys
\* sessionKeys[j] (null for a key that was not found)
_handleLoadMultipleResult(typeRef, loadedEntities, sessionKeys) ==
    LET model == resolveTypeReference(typeRef)
        migrated == IF isSameTypeRef(typeRef, PushIdentifierTypeRef)
                    THEN [j \in 1..Len(loadedEntities) |-> applyMigrations(typeRef, loadedEntities[j])]
                    ELSE loadedEntities
    IN [j \in 1..Len(loadedEntities) |->
           applyMigrationsForInstance(decryptAndMapToInstance(model, migrated[j], sessionKeys[j]))]

\* {concurrency: 5}, the option of both promiseMap calls of
\* _handleLoadMultipleResult
concurrency == 5

\* the stages of an instance whose mapper has been called and has not settled
Running == {"migrate", "key", "decrypt", "instance"}

\* promiseMap(items, mapper, {concurrency}) calls the mapper for the first
\* items, up to the limit; the others wait
pMapStart(n, label) == [j \in 1..n |-> IF j <= concurrency THEN label ELSE "queued"]

\* the mapper of item j has settled: promiseMap calls the mapper for the next
\* item that waits
pMapSettled(stage, j, settled, label) ==
    LET st == [stage EXCEPT ![j] = settled]
        queued == {q \in 1..Len(st) : st[q] = "queued"}
    IN IF queued = {} THEN st
       ELSE [st EXCEPT ![CHOOSE q \in queued : \A r \in queued : q <= r] = label]

\* _handleLoadMultipleResult starting the mappers of all instances at once
HandleLoadMultipleResult_NoLimit ==
    /\ pc \in {"lr_decode", "lm_decode"}
    /\ Len(ld.json) > 0
    /\ ld' = [ld EXCEPT !.stage = [j \in 1..Len(ld.json) |->
                                      IF isSameTypeRef(call.typeRef, PushIdentifierTypeRef)
                                      THEN "migrate" ELSE "key"],
                        !.keys = [j \in 1..Len(ld.json) |-> null],
                        !.outcomes = [j \in 1..Len(ld.json) |-> null]]
    /\ pc' = "hl_pipeline"
    /\ UNCHANGED <<call, prepared, sm, su, requests, responses, other, minted, created, server, result,
                   chunkFate, setupCalls, failed>>

\* _handleLoadMultipleResult(typeRef, loadedEntities) up to the first await on
\* the crypto facade, for the answer of loadRange or of a chunk of
\* loadMultiple that holds instances: the first promiseMap starts, the one
\* of the migration for PushIdentifier, the one of the pipeline otherwise
HandleLoadMultipleResult ==
    /\ pc \in {"lr_decode", "lm_decode"}
    /\ Len(ld.json) > 0
    /\ ld' = [ld EXCEPT !.stage = pMapStart(Len(ld.json),
                                            IF isSameTypeRef(call.typeRef, PushIdentifierTypeRef)
                                            THEN "migrate" ELSE "key"),
                        !.keys = [j \in 1..Len(ld.json) |-> null],
                        !.outcomes = [j \in 1..Len(ld.json) |-> null]]
    /\ pc' = "hl_pipeline"
    /\ UNCHANGED <<call, prepared, sm, su, requests, responses, other, minted, created, server, result,
                   chunkFate, setupCalls, failed>>

\* _handleLoadMultipleResult returns decoded, with l the locals: loadRange
\* returns it; the mapper of loadMultiple returns it for its chunk, and the
\* promiseMap goes to the next chunk or loadMultiple returns flat(loadedChunks)
HandleLoadMultipleResultReturns(l, decoded) ==
    LET loadedChunks == Append(l.loadedChunks, decoded)
    IN IF call.op = "loadRange"
       THEN /\ result' = [NoResult EXCEPT !.status = "returned", !.entities = decoded]
            /\ pc' = "done"
            /\ ld' = [l EXCEPT !.settled = l.settled \o l.outcomes, !.outcomes = <<>>]
       ELSE IF l.chunk < Len(idChunks)
       THEN /\ ld' = [l EXCEPT !.chunk = l.chunk + 1, !.loadedChunks = loadedChunks,
                               !.json = <<>>, !.stage = <<>>, !.keys = <<>>,
                               !.settled = l.settled \o l.outcomes, !.outcomes = <<>>]
            /\ pc' = "lm_get"
            /\ result' = result
       ELSE /\ ld' = [l EXCEPT !.loadedChunks = loadedChunks, !.json = <<>>,
                               !.stage = <<>>, !.keys = <<>>,
                               !.settled = l.settled \o l.outcomes, !.outcomes = <<>>]
            /\ result' = [NoResult EXCEPT !.status = "returned",
                                          !.entities = flat(loadedChunks)]
            /\ pc' = "done"

\* _handleLoadMultipleResult for an answer without instances: both
\* promiseMap calls resolve with [] and no mapper is called
HandleEmptyLoadMultipleResult ==
    /\ pc \in {"lr_decode", "lm_decode"}
    /\ Len(ld.json) = 0
    /\ HandleLoadMultipleResultReturns(ld, <<>>)
    /\ UNCHANGED <<call, prepared, sm, su, requests, responses, other, minted, created, server,
                   chunkFate, setupCalls, failed>>

\* this._crypto.applyMigrations(typeRef, instance) settles for instance j of
\* a PushIdentifier answer; after the last one the promiseMap of the
\* pipeline starts
LegacyMigrationSettles(j) ==
    /\ pc = "hl_pipeline"
    /\ j \in 1..Len(ld.stage)
    /\ ld.stage[j] = "migrate"
    /\ LET st == pMapSettled(ld.stage, j, "migrated", "migrate")
       IN ld' = [ld EXCEPT !.json[j] = applyMigrations(call.typeRef, ld.json[j]),
                           !.stage = IF \A q \in 1..Len(st) : st[q] = "migrated"
                                     THEN pMapStart(Len(st), "key") ELSE st]
    /\ UNCHANGED <<pc, call, prepared, sm, su, requests, responses, other, minted, created, server, result,
                   chunkFate, setupCalls, failed>>

\* the pipeline without the catch on resolveSessionKey
PipelineResolveSessionKey_NoCatch(j, outcome) ==
    /\ pc = "hl_pipeline"
    /\ j \in 1..Len(ld.stage)
    /\ ld.stage[j] = "key"
    /\ outcome \in ResolveOutcomes
    /\ LET sk == resolveSessionKey(ld.json[j], outcome)
       IN IF sk \notin ResolveOutcomes
          THEN /\ ld' = [ld EXCEPT !.keys[j] = sk, !.outcomes[j] = outcome,
                                   !.stage[j] = "decrypt"]
               /\ UNCHANGED <<pc, result>>
          ELSE /\ ld' = [ld EXCEPT !.outcomes[j] = outcome]
               /\ Throws(sk)
    /\ UNCHANGED <<call, prepared, sm, su, requests, responses, other, minted, created, server,
                   chunkFate, setupCalls, failed>>

\* this._crypto.resolveSessionKey(model, instance).catch(...) settles for
\* instance j; an error that is not caught rejects the promiseMap and with
\* it the call
PipelineResolveSessionKey(j, outcome) ==
    /\ pc = "hl_pipeline"
    /\ j \in 1..Len(ld.stage)
    /\ ld.stage[j] = "key"
    /\ outcome \in ResolveOutcomes
    /\ LET sk == CatchSessionKeyNotFound(resolveSessionKey(ld.json[j], outcome))
       IN IF sk \notin ResolveOutcomes
          THEN /\ ld' = [ld EXCEPT !.keys[j] = sk, !.outcomes[j] = outcome,
                                   !.stage[j] = "decrypt"]
               /\ UNCHANGED <<pc, result>>
          ELSE /\ ld' = [ld EXCEPT !.outcomes[j] = outcome]
               /\ Throws(sk)
    /\ UNCHANGED <<call, prepared, sm, su, requests, responses, other, minted, created, server,
                   chunkFate, setupCalls, failed>>

\* .then(sk => this._instanceMapper.decryptAndMapToInstance(model, instance, sk))
\* settles for instance j
PipelineDecrypt(j) ==
    /\ pc = "hl_pipeline"
    /\ j \in 1..Len(ld.stage)
    /\ ld.stage[j] = "decrypt"
    /\ ld' = [ld EXCEPT !.json[j] = decryptAndMapToInstance(resolveTypeReference(call.typeRef),
                                                            ld.json[j], ld.keys[j]),
                        !.stage[j] = "instance"]
    /\ UNCHANGED <<pc, call, prepared, sm, su, requests, responses, other, minted, created, server, result,
                   chunkFate, setupCalls, failed>>

\* .then(decryptedInstance => this._crypto.applyMigrationsForInstance(...))
\* settles for instance j: its mapper has settled, and after the last one
\* the promiseMap resolves with the instances in the order of the answer
PipelineApplyMigrationsForInstance(j) ==
    /\ pc = "hl_pipeline"
    /\ j \in 1..Len(ld.stage)
    /\ ld.stage[j] = "instance"
    /\ LET st == pMapSettled(ld.stage, j, "done", "key")
           l == [ld EXCEPT !.json[j] = applyMigrationsForInstance(ld.json[j]), !.stage = st]
       IN IF \A q \in 1..Len(st) : st[q] = "done"
          THEN HandleLoadMultipleResultReturns(l, l.json)
          ELSE ld' = l /\ UNCHANGED <<pc, result>>
    /\ UNCHANGED <<call, prepared, sm, su, requests, responses, other, minted, created, server,
                   chunkFate, setupCalls, failed>>

(***************************************************************************)
(* update, erase, entityEventsReceived                                     *)
(***************************************************************************)
\* the instance a caller hands to update: an instance loaded before, with
\* its id, and changed values
UpdatedInstance(id) ==
    [id |-> expandId(id).elementId, data |-> "data" \o expandId(id).elementId \o "b",
     ownerKey |-> "key" \o expandId(id).elementId]

\* update up to resolveSessionKey
UpdateCall(typeRef, id, authHeaders) ==
    /\ pc = "idle"
    /\ call' = [NoCall EXCEPT !.op = "update", !.typeRef = typeRef, !.id = id,
                              !.authHeaders = authHeaders]
    /\ IF id = <<>>
       THEN Throws(IdMissingError) /\ prepared' = prepared
       ELSE LET ids == expandId(id)
                p == _validateAndPrepareRestRequest(typeRef, ids.listId, ids.elementId,
                                                    EmptyParams, EmptyParams, authHeaders)
            IN /\ prepared' = p
               /\ IF p.error # null THEN Throws(p.error)
                  ELSE pc' = "up_key" /\ result' = result
    /\ UNCHANGED <<ld, sm, su, requests, responses, other, minted, created, server, chunkFate, setupCalls, failed>>

\* update minting a new owner key, as setup does
UpdateResolveSessionKey_MintsNewKey(outcome) ==
    /\ pc = "up_key"
    /\ outcome \in ResolveOutcomes
    /\ ld' = [ld EXCEPT !.sessionKey = setNewOwnerEncSessionKey(1)]
    /\ minted' = Append(minted, 1)
    /\ pc' = "up_encrypt"
    /\ UNCHANGED <<call, prepared, sm, su, requests, responses, other, created, server, result, chunkFate,
                   setupCalls, failed>>

\* const sessionKey = await this._crypto.resolveSessionKey(typeModel, instance)
UpdateResolveSessionKey(outcome) ==
    /\ pc = "up_key"
    /\ outcome \in ResolveOutcomes
    /\ LET sessionKey == resolveSessionKey(UpdatedInstance(call.id), outcome)
           log == Append(ld.log, Step("resolveSessionKey", UpdatedInstance(call.id), outcome))
       IN IF sessionKey \notin ResolveOutcomes
          THEN /\ ld' = [ld EXCEPT !.sessionKey = sessionKey, !.log = log]
               /\ pc' = "up_encrypt"
               /\ result' = result
          ELSE /\ Throws(sessionKey)
               /\ ld' = [ld EXCEPT !.log = log]
    /\ UNCHANGED <<call, prepared, sm, su, requests, responses, other, minted, created, server, chunkFate,
                   setupCalls, failed>>

\* await this._instanceMapper.encryptAndMapToLiteral(typeModel, instance, sessionKey)
UpdateEncrypt(ok) ==
    /\ pc = "up_encrypt"
    /\ IF ok
       THEN /\ pc' = "up_put"
            /\ result' = result
            /\ ld' = [ld EXCEPT !.json = <<encryptAndMapToLiteral(prepared.typeModel,
                                                                 UpdatedInstance(call.id),
                                                                 ld.sessionKey)>>]
       ELSE Throws(CryptoError) /\ ld' = ld
    /\ UNCHANGED <<call, prepared, sm, su, requests, responses, other, minted, created, server, chunkFate,
                   setupCalls, failed>>

\* the PUT of update
UpdatePut(answer) ==
    /\ pc = "up_put"
    /\ answer \in {"ok"} \cup RestErrors
    /\ other' = other
    /\ responses' = Append(responses, answer)
    /\ requests' = Append(requests,
           Request("PUT", prepared.path, prepared.queryParams, prepared.headers, ld.json))
    /\ IF answer = "ok"
       THEN pc' = "done" /\ result' = [NoResult EXCEPT !.status = "returned"]
       ELSE Throws(answer)
    /\ UNCHANGED <<call, prepared, ld, sm, su, minted, created, server, chunkFate, setupCalls, failed>>

\* erase up to the DELETE
EraseCall(typeRef, id, authHeaders) ==
    LET ids == expandId(id)
        p == _validateAndPrepareRestRequest(typeRef, ids.listId, ids.elementId,
                                            EmptyParams, EmptyParams, authHeaders)
    IN /\ pc = "idle"
       /\ call' = [NoCall EXCEPT !.op = "erase", !.typeRef = typeRef, !.id = id,
                                 !.authHeaders = authHeaders]
       /\ prepared' = p
       /\ IF p.error # null THEN Throws(p.error) ELSE pc' = "er_delete" /\ result' = result
       /\ UNCHANGED <<ld, sm, su, requests, responses, other, minted, created, server, chunkFate, setupCalls, failed>>

\* erase issuing its DELETE a second time when the first one fails
EraseDelete_RetriesOnce(answer) ==
    /\ pc = "er_delete"
    /\ answer \in {"ok"} \cup RestErrors
    /\ other' = other
    /\ responses' = Append(responses, answer)
    /\ requests' = Append(requests,
           Request("DELETE", prepared.path, prepared.queryParams, prepared.headers, <<>>))
    /\ IF answer = "ok"
       THEN pc' = "done" /\ result' = [NoResult EXCEPT !.status = "returned"]
       ELSE IF Len(requests) = 0
       THEN pc' = pc /\ result' = result
       ELSE Throws(answer)
    /\ UNCHANGED <<call, prepared, ld, sm, su, minted, created, server, chunkFate, setupCalls, failed>>

\* the DELETE of erase
EraseDelete(answer) ==
    /\ pc = "er_delete"
    /\ answer \in {"ok"} \cup RestErrors
    /\ other' = other
    /\ responses' = Append(responses, answer)
    /\ requests' = Append(requests,
           Request("DELETE", prepared.path, prepared.queryParams, prepared.headers, <<>>))
    /\ IF answer = "ok"
       THEN pc' = "done" /\ result' = [NoResult EXCEPT !.status = "returned"]
       ELSE Throws(answer)
    /\ UNCHANGED <<call, prepared, ld, sm, su, minted, created, server, chunkFate, setupCalls, failed>>

\* batches of entity updates
Batches == {<<>>, <<"update1">>, <<"update1", "update2">>, <<"update2", "update1">>}

\* entityEventsReceived returning the updates of the batch most recent first
EntityEventsReceived_Reverses(batch) ==
    /\ pc = "idle"
    /\ call' = [NoCall EXCEPT !.op = "entityEventsReceived", !.batch = batch]
    /\ result' = [NoResult EXCEPT !.status = "returned",
                                  !.batch = [k \in 1..Len(batch) |-> batch[Len(batch) + 1 - k]]]
    /\ pc' = "done"
    /\ UNCHANGED <<prepared, ld, sm, su, requests, responses, other, minted, created, server, chunkFate, setupCalls,
                   failed>>

\* entityEventsReceived(batch)
EntityEventsReceived(batch) ==
    /\ pc = "idle"
    /\ call' = [NoCall EXCEPT !.op = "entityEventsReceived", !.batch = batch]
    /\ result' = [NoResult EXCEPT !.status = "returned", !.batch = batch]
    /\ pc' = "done"
    /\ UNCHANGED <<prepared, ld, sm, su, requests, responses, other, minted, created, server, chunkFate, setupCalls,
                   failed>>

(***************************************************************************)
(* The caller takes the result; the next call starts from a fresh state.   *)
(***************************************************************************)
Return ==
    /\ pc = "done"
    /\ pc' = "idle"
    /\ call' = NoCall
    /\ prepared' = NoPrepared
    /\ ld' = NoLd
    /\ sm' = NoSm
    /\ su' = NoSu
    /\ requests' = <<>>
    /\ responses' = <<>>
    /\ other' = other
    /\ minted' = <<>>
    /\ created' = <<>>
    /\ server' = <<>>
    /\ result' = NoResult
    /\ chunkFate' = <<>>
    /\ setupCalls' = <<>>
    /\ failed' = {}

Next ==
    \/ \E listId \in ListIds, typeRef \in TypeRefs, n \in 0..MaxInstances, a \in AuthHeaders :
          SetupMultipleCall(listId, typeRef, n, a)
    \/ \E k \in 1..(POST_MULTIPLE_LIMIT + 1) : SetupMultipleEncrypt(k)
    \/ \E answer \in {"ok"} \cup RestErrors : SetupMultiplePost(answer)
    \/ \E a \in AuthHeaders : SetupMultipleFallback(a)
    \/ SetupMultipleFinish
    \/ \E listId \in ListIds, typeRef \in TypeRefs, x \in ExtraHeaders, a \in AuthHeaders :
          SetupCall(listId, typeRef, 1, x, a)
    \/ \E ok \in BOOLEAN : SetupEncrypt(ok)
    \/ \E answer \in {"ok"} \cup RestErrors : SetupPost(answer)
    \/ \E typeRef \in TypeRefs, id \in InstanceIds, x \in ExtraHeaders, a \in AuthHeaders :
          LoadCall(typeRef, id, x, a)
    \/ \E answer \in {"ok"} \cup RestErrors : LoadGet(answer)
    \/ LoadApplyMigrations
    \/ \E outcome \in ResolveOutcomes : LoadResolveSessionKey(outcome)
    \/ LoadDecrypt
    \/ LoadApplyMigrationsForInstance
    \/ \E typeRef \in TypeRefs, listId \in ListIds, count \in 0..MaxCount, reverse \in BOOLEAN,
          a \in AuthHeaders : LoadRangeCall(typeRef, listId, count, reverse, a)
    \/ \E answer \in RangeAnswers(call.count, call.reverse) : LoadRangeGet(null, answer)
    \/ \E error \in RestErrors : LoadRangeGet(error, <<>>)
    \/ \E typeRef \in TypeRefs, listId \in ListIds, n \in 0..MaxIds, a \in AuthHeaders :
          LoadMultipleCall(typeRef, listId, n, a)
    \/ pc = "lm_get" /\ \E answer \in MultipleAnswers(idChunk) : LoadMultipleGet(null, answer)
    \/ \E error \in RestErrors : LoadMultipleGet(error, <<>>)
    \/ HandleLoadMultipleResult
    \/ HandleEmptyLoadMultipleResult
    \/ \E j \in 1..Len(ld.stage) : LegacyMigrationSettles(j)
    \/ \E j \in 1..Len(ld.stage), outcome \in ResolveOutcomes : PipelineResolveSessionKey(j, outcome)
    \/ \E j \in 1..Len(ld.stage) : PipelineDecrypt(j)
    \/ \E j \in 1..Len(ld.stage) : PipelineApplyMigrationsForInstance(j)
    \/ \E typeRef \in TypeRefs, id \in InstanceIds \cup {<<>>}, a \in AuthHeaders :
          UpdateCall(typeRef, id, a)
    \/ \E outcome \in ResolveOutcomes : UpdateResolveSessionKey(outcome)
    \/ \E ok \in BOOLEAN : UpdateEncrypt(ok)
    \/ \E answer \in {"ok"} \cup RestErrors : UpdatePut(answer)
    \/ \E typeRef \in TypeRefs, id \in InstanceIds, a \in AuthHeaders : EraseCall(typeRef, id, a)
    \/ \E answer \in {"ok"} \cup RestErrors : EraseDelete(answer)
    \/ \E batch \in Batches : EntityEventsReceived(batch)
    \/ Return

Spec == Init /\ [][Next]_vars

(***************************************************************************)
(* The bulk calls on answers and inputs larger than the limit of the       *)
(* promiseMap of _handleLoadMultipleResult: one caller, one type of each   *)
(* kind, a server that answers a range request with BulkCount instances.   *)
(***************************************************************************)
BulkTypeRefs == {[app |-> "tutanota", type |-> "Mail"], PushIdentifierTypeRef}

BulkAuthHeaders == [accessToken |-> "tokenA"]

\* resolveSessionKey finds the key of an instance or fails
BulkOutcomes == {"sessionKey", CryptoError}

NextBulk ==
    \/ \E typeRef \in BulkTypeRefs : LoadRangeCall(typeRef, "listA", BulkCount, FALSE, BulkAuthHeaders)
    \/ LoadRangeGet(null, [j \in 1..BulkCount |-> WireInstance(ElementId(j))])
    \/ LoadMultipleCall([app |-> "tutanota", type |-> "Mail"], "listA", MaxIds, BulkAuthHeaders)
    \/ pc = "lm_get" /\ LoadMultipleGet(null, [j \in 1..Len(idChunk) |-> WireInstance(idChunk[j])])
    \/ HandleLoadMultipleResult
    \/ \E j \in 1..Len(ld.stage) : LegacyMigrationSettles(j)
    \/ \E j \in 1..Len(ld.stage), outcome \in BulkOutcomes : PipelineResolveSessionKey(j, outcome)
    \/ \E j \in 1..Len(ld.stage) : PipelineDecrypt(j)
    \/ \E j \in 1..Len(ld.stage) : PipelineApplyMigrationsForInstance(j)
    \/ SetupMultipleCall("listA", [app |-> "tutanota", type |-> "Mail"], MaxInstances, BulkAuthHeaders)
    \/ \E k \in 1..(POST_MULTIPLE_LIMIT + 1) : SetupMultipleEncrypt(k)
    \/ \E answer \in {"ok"} \cup RestErrors : SetupMultiplePost(answer)
    \/ SetupMultipleFallback(BulkAuthHeaders)
    \/ \E ok \in BOOLEAN : SetupEncrypt(ok)
    \/ \E answer \in {"ok"} \cup RestErrors : SetupPost(answer)
    \/ SetupMultipleFinish
    \/ Return

SpecBulk == Init /\ [][NextBulk]_vars

(***************************************************************************)
(* The round trip: calls of setup and of load, one after the other,        *)
(* against a server that stores what is posted and answers a GET with what *)
(* it stores under the path.                                               *)
(***************************************************************************)
\* the caller takes the result and calls again; the server keeps what it
\* stores
NextCall ==
    /\ pc = "done"
    /\ pc' = "idle"
    /\ call' = NoCall
    /\ prepared' = NoPrepared
    /\ ld' = NoLd
    /\ sm' = NoSm
    /\ su' = NoSu
    /\ requests' = <<>>
    /\ responses' = <<>>
    /\ other' = other
    /\ minted' = <<>>
    /\ created' = <<>>
    /\ server' = server
    /\ result' = NoResult
    /\ chunkFate' = <<>>
    /\ setupCalls' = <<>>
    /\ failed' = {}

\* the server stores an entity under the path
ServerHolds(path) == \E k \in 1..Len(server) : server[k].path = path

\* the ids a caller may form from what setup returned for the k-th stored
\* instance: the returned id, and for a list the pair of list id and
\* returned id
RoundTripIds(k) ==
    IF Truthy(server[k].listId)
    THEN {<<server[k].id>>, <<server[k].listId, server[k].id>>}
    ELSE {<<server[k].id>>}

NextRoundTrip ==
    \/ /\ Len(server) < MaxStored
       /\ \E listId \in ListIds, typeRef \in TypeRefs :
              SetupCall(listId, typeRef, Len(server) + 1, EmptyParams, BulkAuthHeaders)
    \/ \E ok \in BOOLEAN : SetupEncrypt(ok)
    \/ \E answer \in {"ok"} \cup RestErrors : SetupPost(answer)
    \/ \E k \in 1..Len(server) : \E id \in RoundTripIds(k) :
          LoadCall(server[k].typeRef, id, EmptyParams, BulkAuthHeaders)
    \/ /\ pc = "ld_get"
       /\ \E answer \in (IF ServerHolds(prepared.path) THEN {"ok"} ELSE {NotFoundError})
                             \cup RestErrors : LoadGet(answer)
    \/ LoadApplyMigrations
    \/ \E outcome \in ResolveOutcomes : LoadResolveSessionKey(outcome)
    \/ LoadDecrypt
    \/ LoadApplyMigrationsForInstance
    \/ NextCall

SpecRoundTrip == Init /\ [][NextRoundTrip]_vars

(***************************************************************************)
(* Calls of setupMultiple, one after the other, to their end.  The promise *)
(* of every collaborator the call awaits settles, and the continuation of  *)
(* the call then runs: a call that can take a step takes one.              *)
(***************************************************************************)
\* a step of the call of setupMultiple in progress
SetupMultipleStep ==
    \/ \E k \in 1..(POST_MULTIPLE_LIMIT + 1) : SetupMultipleEncrypt(k)
    \/ \E answer \in {"ok"} \cup RestErrors : SetupMultiplePost(answer)
    \/ \E a \in AuthHeaders : SetupMultipleFallback(a)
    \/ \E ok \in BOOLEAN : SetupEncrypt(ok)
    \/ \E answer \in {"ok"} \cup RestErrors : SetupPost(answer)
    \/ SetupMultipleFinish

NextSetupMultiple ==
    \/ \E listId \in ListIds, typeRef \in TypeRefs, n \in 0..MaxInstances, a \in AuthHeaders :
          SetupMultipleCall(listId, typeRef, n, a)
    \/ SetupMultipleStep
    \/ Return

SpecSetupMultiple == Init /\ [][NextSetupMultiple]_vars /\ WF_vars(SetupMultipleStep)

(***************************************************************************)
(* Two calls of setupMultiple on the same client at the same time.  The    *)
(* locals of a call (its arguments, the prepared request, errors,          *)
(* failedInstances, the chunk in progress, the setup in progress) belong   *)
(* to the call; the client has no fields but its collaborators, which it   *)
(* never assigns after the constructor.  While one call waits at an await, *)
(* the event loop may run the other one; the transport, the crypto facade  *)
(* and the server are the same for both.                                   *)
(***************************************************************************)
\* the locals and the position of the call that is running
Context == [pc |-> pc, call |-> call, prepared |-> prepared, ld |-> ld,
            sm |-> sm, su |-> su, result |-> result, chunkFate |-> chunkFate,
            setupCalls |-> setupCalls, failed |-> failed]

\* the switch between the calls with errors and failedInstances kept in
\* fields of the client, which both calls then write to
Yield_SharesAccumulators ==
    /\ pc # "idle" \/ other.pc # "idle"
    /\ other' = Context
    /\ pc' = other.pc
    /\ call' = other.call
    /\ prepared' = other.prepared
    /\ ld' = other.ld
    /\ sm' = [other.sm EXCEPT !.errors = sm.errors,
                              !.failedInstances = sm.failedInstances]
    /\ su' = other.su
    /\ result' = other.result
    /\ chunkFate' = other.chunkFate
    /\ setupCalls' = other.setupCalls
    /\ failed' = other.failed
    /\ UNCHANGED <<requests, responses, minted, created, server>>

\* the running call waits at an await (or is over, or has not started) and
\* the event loop goes on with the other call
Yield ==
    /\ pc # "idle" \/ other.pc # "idle"
    /\ other' = Context
    /\ pc' = other.pc
    /\ call' = other.call
    /\ prepared' = other.prepared
    /\ ld' = other.ld
    /\ sm' = other.sm
    /\ su' = other.su
    /\ result' = other.result
    /\ chunkFate' = other.chunkFate
    /\ setupCalls' = other.setupCalls
    /\ failed' = other.failed
    /\ UNCHANGED <<requests, responses, minted, created, server>>

\* the instances of a call of n instances that starts while the other call
\* has its own: other objects than those
FreshInstances(n) == [i \in 1..n |-> Len(other.call.instances) + i]

\* both callers have taken their results
BothReturn ==
    /\ pc = "done"
    /\ other.pc = "done"
    /\ pc' = "idle"
    /\ call' = NoCall
    /\ prepared' = NoPrepared
    /\ ld' = NoLd
    /\ sm' = NoSm
    /\ su' = NoSu
    /\ requests' = <<>>
    /\ responses' = <<>>
    /\ minted' = <<>>
    /\ created' = <<>>
    /\ server' = <<>>
    /\ result' = NoResult
    /\ chunkFate' = <<>>
    /\ setupCalls' = <<>>
    /\ failed' = {}
    /\ other' = NoOther

NextConcurrent ==
    \/ \E n \in 1..ConcurrentCount :
          SetupMultipleStarts("listA", [app |-> "tutanota", type |-> "Mail"],
                              FreshInstances(n), BulkAuthHeaders)
    \/ \E k \in 1..(POST_MULTIPLE_LIMIT + 1) : SetupMultipleEncrypt(k)
    \/ \E answer \in {"ok"} \cup RestErrors : SetupMultiplePost(answer)
    \/ SetupMultipleFallback(BulkAuthHeaders)
    \/ \E ok \in BOOLEAN : SetupEncrypt(ok)
    \/ \E answer \in {"ok"} \cup RestErrors : SetupPost(answer)
    \/ SetupMultipleFinish
    \/ Yield
    \/ BothReturn

SpecConcurrent == Init /\ [][NextConcurrent]_vars

(***************************************************************************)
(* Properties.                                                             *)
(***************************************************************************)
\* how often x occurs in xs
Count(xs, x) == Cardinality({k \in 1..Len(xs) : xs[k] = x})

\* the elements of xs
Range(xs) == {xs[k] : k \in 1..Len(xs)}

\* the id the server generated for instance i, which it has created
IdOf(i) == GeneratedId(CHOOSE k \in 1..Len(created) : created[k] = i)

\* the ids generated for the instances of xs, in the order of xs
IdsOf(xs) == [k \in 1..Len(xs) |-> IdOf(xs[k])]

\* the mapper of setupMultiple has returned for chunk c
ChunkDone(c) == call.op = "setupMultiple" /\ c \in 1..Len(chunkFate) /\ c < sm.chunk

\* the errors recorded by setupMultiple that chunk c raised as a whole
ChunkErrors(c) == {k \in 1..Len(sm.errors) : sm.errors[k].chunk = c /\ sm.errors[k].instance = 0}

\* the errors recorded by setupMultiple for e, one of its instances
InstanceErrors(e) == {k \in 1..Len(sm.errors) : sm.errors[k].instance = e}

NotFailed(i) == i \notin failed

\* C1: when the batch POST of a chunk has failed with PayloadTooLargeError,
\* setup has been called exactly once for every instance of the chunk; for
\* each instance whose setup failed one error and the instance are recorded,
\* and the ids of the chunk are exactly the ids of the instances whose setup
\* succeeded, in the order of the chunk.
C1_FallbackSetsUpEveryInstance ==
    \A c \in 1..Len(chunkFate) :
        (ChunkDone(c) /\ chunkFate[c] = "tooLarge") =>
            /\ \A i \in Range(instanceChunks[c]) :
                  /\ Count(setupCalls, i) = 1
                  /\ i \in failed => /\ Count(sm.failedInstances, i) = 1
                                     /\ Cardinality(InstanceErrors(i)) = 1
                  /\ i \notin failed => /\ Count(sm.failedInstances, i) = 0
                                        /\ InstanceErrors(i) = {}
                                        /\ Count(created, i) = 1
            /\ sm.idChunks[c] = IdsOf(SelectSeq(instanceChunks[c], NotFailed))

\* a chunk that fell back to single setups, the first of which failed and
\* the second of which succeeded
C1_Witness ==
    \E c \in 1..Len(chunkFate) :
        /\ ChunkDone(c) /\ chunkFate[c] = "tooLarge"
        /\ Len(instanceChunks[c]) >= 2
        /\ instanceChunks[c][1] \in failed
        /\ instanceChunks[c][2] \notin failed
        /\ Len(sm.idChunks[c]) >= 1

\* C2: when a chunk has failed with an error that is not a
\* PayloadTooLargeError, exactly one error is recorded for the chunk, every
\* instance of the chunk is recorded as failed (once), the chunk contributes
\* no ids and setup was called for none of its instances.
C2_OtherErrorFailsWholeChunk ==
    \A c \in 1..Len(chunkFate) :
        (ChunkDone(c) /\ chunkFate[c] = "failed") =>
            /\ Cardinality(ChunkErrors(c)) = 1
            /\ Cardinality({k \in 1..Len(sm.errors) : sm.errors[k].chunk = c}) = 1
            /\ \A k \in ChunkErrors(c) : sm.errors[k].name # PayloadTooLargeError
            /\ \A i \in Range(instanceChunks[c]) :
                  /\ Count(sm.failedInstances, i) = 1
                  /\ Count(setupCalls, i) = 0
                  /\ Count(created, i) = 0
            /\ sm.idChunks[c] = <<>>

\* a full chunk that failed as a whole, after its POST
C2_Witness ==
    \E c \in 1..Len(chunkFate) :
        /\ ChunkDone(c) /\ chunkFate[c] = "failed"
        /\ Len(instanceChunks[c]) >= 2
        /\ \E k \in ChunkErrors(c) : sm.errors[k].name = ConnectionError
        /\ Len(requests) >= 1

\* setupMultiple has settled after processing its chunks
SetupMultipleSettled == call.op = "setupMultiple" /\ pc = "done" /\ sm.chunk > 0

\* C3: once all chunks are processed, if any instance has failed the call
\* fails with a SetupMultipleError that carries all accumulated errors (at
\* least one for every failed instance or its chunk) and exactly the failed
\* instances, and returns no ids.
C3_AnyFailureFailsTheCall ==
    (SetupMultipleSettled /\ failed # {}) =>
        /\ Thrown(result)
        /\ result.error = SetupMultipleError
        /\ result.errors = sm.errors
        /\ \A i \in failed :
              \E k \in 1..Len(result.errors) :
                  \/ result.errors[k].instance = i
                  \/ /\ result.errors[k].instance = 0
                     /\ i \in Range(instanceChunks[result.errors[k].chunk])
                     /\ chunkFate[result.errors[k].chunk] = "failed"
        /\ Range(result.failedInstances) = failed
        /\ Len(result.failedInstances) = Cardinality(failed)
        /\ result.ids = <<>>
        /\ result.id = undefined

\* the call failed although one chunk succeeded as a whole
C3_Witness ==
    /\ SetupMultipleSettled
    /\ failed # {}
    /\ Thrown(result)
    /\ \E c \in 1..Len(chunkFate) : chunkFate[c] = "ok"
    /\ \E c \in 1..Len(chunkFate) : chunkFate[c] = "failed"

\* C6: setupMultiple of an empty list returns an empty id list and hands no
\* request to the transport (and asks for no key), whatever the list id, the
\* type and the authentication headers.
C6_EmptySetupMultiple ==
    (call.op = "setupMultiple" /\ call.instances = <<>> /\ pc # "idle") =>
        /\ pc = "done"
        /\ Returned(result)
        /\ result.ids = <<>>
        /\ requests = <<>>
        /\ minted = <<>>

\* setupMultiple of an empty list on an element type with a list id and
\* without authentication headers
C6_Witness ==
    /\ call.op = "setupMultiple" /\ call.instances = <<>> /\ pc = "done"
    /\ resolveTypeReference(call.typeRef).type = ElementType
    /\ call.listId = "listA"
    /\ call.authHeaders = EmptyParams
    /\ Returned(result)

\* C4: when setupMultiple has processed its chunks and recorded no failure,
\* it returns the concatenation of the ids of the chunks in chunk order: as
\* many ids as instances, the i-th being the id the server generated for
\* the i-th instance (the server answers a POST of a chunk with one
\* generated id per instance, in request order).
C4_ReturnsIdsInInputOrder ==
    (SetupMultipleSettled /\ Len(sm.errors) = 0) =>
        /\ Returned(result)
        /\ result.ids = flat(sm.idChunks)
        /\ Len(sm.idChunks) = Len(instanceChunks)
        /\ Len(result.ids) = Len(call.instances)
        /\ \A i \in 1..Len(call.instances) :
              /\ Count(created, call.instances[i]) = 1
              /\ result.ids[i] = IdOf(call.instances[i])

\* a call of several chunks returned its ids; one chunk was created by its
\* batch POST, one by single setups
C4_Witness ==
    /\ SetupMultipleSettled
    /\ Returned(result)
    /\ Len(result.ids) >= 3
    /\ \E c \in 1..Len(chunkFate) : chunkFate[c] = "ok"
    /\ \E c \in 1..Len(chunkFate) : chunkFate[c] = "tooLarge"

\* the instances of chunk c that a single setup of the fallback has created
FallbackSuccesses(c) == {i \in Range(instanceChunks[c]) : i \notin failed /\ Count(created, i) = 1}

\* C5 as stated: the instances a single setup of the fallback has created
\* appear neither in the ids setupMultiple returns nor among the failed
\* instances.
C5_Original ==
    \A c \in 1..Len(chunkFate) :
        (ChunkDone(c) /\ chunkFate[c] = "tooLarge" /\ pc = "done") =>
            \A i \in FallbackSuccesses(c) :
                /\ IdOf(i) \notin Range(result.ids)
                /\ i \notin Range(result.failedInstances)

\* C5, amended: the instances a single setup of the fallback has created are
\* never among the failed instances and do not make the call fail: when no
\* instance of the call has failed the call returns, and the id of each of
\* them is in the returned ids, at the position of the instance; when some
\* instance has failed the call fails and returns no ids.
C5_FallbackSuccessesAreReturned ==
    \A c \in 1..Len(chunkFate) :
        (ChunkDone(c) /\ chunkFate[c] = "tooLarge" /\ pc = "done") =>
            \A i \in FallbackSuccesses(c) :
                /\ i \notin Range(result.failedInstances)
                /\ failed = {} => /\ Returned(result)
                                  /\ Len(result.ids) >= i
                                  /\ result.ids[i] = IdOf(i)
                /\ failed # {} => /\ Thrown(result)
                                  /\ result.ids = <<>>

\* a call that returned the id of an instance created by a single setup of
\* the fallback
C5_Witness ==
    \E c \in 1..Len(chunkFate) :
        /\ ChunkDone(c) /\ chunkFate[c] = "tooLarge" /\ pc = "done"
        /\ Returned(result)
        /\ \E i \in FallbackSuccesses(c) : IdOf(i) \in Range(result.ids)

\* the type of the call
CallTypeModel == resolveTypeReference(call.typeRef)

\* the headers of the call, merged, before the version is added
MergedHeaders == ObjectAssign(call.authHeaders, call.extraHeaders)

\* a POST among the requests
SomePost == \E k \in 1..Len(requests) : requests[k].method = "POST"

\* C7 as stated: every call of setup or setupMultiple on a ListElement type
\* with a null list id, or on an Element type with a list id that is not
\* null, fails with a usage error, issues no POST and mints no key.
C7_Original ==
    (/\ call.op \in {"setup", "setupMultiple"}
     /\ pc = "done"
     /\ \/ CallTypeModel.type = ListElementType /\ call.listId = null
        \/ CallTypeModel.type = ElementType /\ call.listId # null) =>
        /\ Thrown(result)
        /\ result.error \in UsageErrors
        /\ ~SomePost
        /\ minted = <<>>

\* C7, amended: a call of setup or setupMultiple on a ListElement type with
\* a null (or empty) list id, or on an Element type with a list id that is
\* not empty, issues no POST and mints no key; unless it is a setupMultiple
\* of no instances, which returns the empty list, it fails: with
\* NotAuthenticatedError when the merged headers are empty, with the usage
\* error otherwise.
C7_ListIdMustFitTheType ==
    (/\ call.op \in {"setup", "setupMultiple"}
     /\ pc # "idle"
     /\ \/ CallTypeModel.type = ListElementType /\ ~Truthy(call.listId)
        \/ CallTypeModel.type = ElementType /\ Truthy(call.listId)) =>
        /\ pc = "done"
        /\ requests = <<>>
        /\ minted = <<>>
        /\ IF call.op = "setupMultiple" /\ call.instances = <<>>
           THEN Returned(result) /\ result.ids = <<>>
           ELSE /\ Thrown(result)
                /\ result.error =
                      IF DOMAIN MergedHeaders = {} THEN NotAuthenticatedError
                      ELSE IF CallTypeModel.type = ListElementType THEN ListIdMissingError
                      ELSE ListIdGivenError

\* an authenticated setupMultiple of instances of an element type with a
\* list id has failed with the usage error
C7_Witness ==
    /\ call.op = "setupMultiple" /\ pc = "done"
    /\ Len(call.instances) >= 2
    /\ CallTypeModel.type = ElementType /\ call.listId = "listA"
    /\ DOMAIN MergedHeaders # {}
    /\ Thrown(result) /\ result.error = ListIdGivenError

\* C8 as stated: loadRange on a type that is not a ListElement type fails
\* with a usage error and issues no request.
C8_Original ==
    (call.op = "loadRange" /\ pc = "done" /\ CallTypeModel.type # ListElementType) =>
        /\ Thrown(result)
        /\ result.error \in UsageErrors
        /\ requests = <<>>

\* C8, amended: loadRange on a type that is not a ListElement type always
\* fails and issues no request; the error is NotAuthenticatedError when the
\* type is an Element type and the merged headers are empty, and a usage
\* error otherwise.
C8_LoadRangeOnlyOnListElements ==
    (call.op = "loadRange" /\ pc # "idle" /\ CallTypeModel.type # ListElementType) =>
        /\ pc = "done"
        /\ Thrown(result)
        /\ requests = <<>>
        /\ result.error =
              IF ~_verifyType(CallTypeModel) THEN TypeResolutionError
              ELSE IF DOMAIN MergedHeaders = {} THEN NotAuthenticatedError
              ELSE OnlyListElementError
        /\ DOMAIN MergedHeaders # {} => result.error \in UsageErrors

\* an authenticated loadRange on an element type has failed with the usage
\* error
C8_Witness ==
    /\ call.op = "loadRange" /\ pc = "done"
    /\ CallTypeModel.type = ElementType
    /\ DOMAIN MergedHeaders # {}
    /\ Thrown(result) /\ result.error = OnlyListElementError
    /\ requests = <<>>

\* ceil(n / k)
CeilDiv(n, k) == (n + k - 1) \div k

\* the ids of the c-th chunk of consecutive element ids of the call
ConsecutiveIds(c) ==
    SubSeq(call.elementIds, (c - 1) * LOAD_MULTIPLE_LIMIT + 1,
           Min(c * LOAD_MULTIPLE_LIMIT, Len(call.elementIds)))

\* the ids of the entities or wire instances of xs, in order
EntityIds(xs) == [k \in 1..Len(xs) |-> xs[k].id]

\* the requests of loadMultiple so far are GETs for the chunks, in order
RequestsCarryChunks ==
    \A c \in 1..Len(requests) :
        /\ requests[c].method = "GET"
        /\ c <= CeilDiv(Len(call.elementIds), LOAD_MULTIPLE_LIMIT)
        /\ requests[c].queryParams = [ids |-> join(ConsecutiveIds(c))]

\* C9 as stated, for the calls that return: loadMultiple with N ids issues
\* exactly ceil(N/K) GETs, one per chunk of consecutive ids, and returns
\* exactly N entities, chunk-major and in server order within a chunk.
C9_Original ==
    (call.op = "loadMultiple" /\ pc = "done" /\ Returned(result)) =>
        /\ Len(requests) = CeilDiv(Len(call.elementIds), LOAD_MULTIPLE_LIMIT)
        /\ RequestsCarryChunks
        /\ Len(result.entities) = Len(call.elementIds)
        /\ EntityIds(result.entities) = EntityIds(flat(ld.answers))

\* C9, amended: loadMultiple with N ids issues at most ceil(N/K) GETs, the
\* c-th for the c-th chunk of consecutive ids; when it returns it has issued
\* exactly ceil(N/K) GETs and returns one decrypted entity per instance the
\* server answered, chunk-major and in server order within a chunk: exactly
\* N entities when the server answers every chunk with one instance per id.
C9_LoadMultipleChunks ==
    call.op = "loadMultiple" =>
        /\ RequestsCarryChunks
        /\ (pc = "done" /\ Returned(result)) =>
              /\ Len(requests) = CeilDiv(Len(call.elementIds), LOAD_MULTIPLE_LIMIT)
              /\ Len(ld.answers) = Len(requests)
              /\ EntityIds(result.entities) = EntityIds(flat(ld.answers))
              /\ \A k \in 1..Len(result.entities) : result.entities[k].migratedInstance
              /\ (\A c \in 1..Len(ld.answers) : Len(ld.answers[c]) = Len(ConsecutiveIds(c)))
                    => Len(result.entities) = Len(call.elementIds)

\* loadMultiple of more than one chunk returned one entity per id, the
\* server having answered a chunk in another order than requested
C9_Witness ==
    /\ call.op = "loadMultiple" /\ pc = "done" /\ Returned(result)
    /\ Len(requests) >= 2
    /\ Len(call.elementIds) > LOAD_MULTIPLE_LIMIT
    /\ Len(result.entities) = Len(call.elementIds)
    /\ EntityIds(result.entities) # call.elementIds

\* the call is one of an operation that prepares a request
PreparesRequest ==
    \/ call.op \in {"load", "loadRange", "loadMultiple", "setup", "update", "erase"}
    \/ call.op = "setupMultiple" /\ call.instances # <<>>

\* C10 as stated, for the types the client accepts: an operation that
\* prepares a request fails with NotAuthenticatedError and issues no request
\* when the merged headers are empty.
C10_Original ==
    (PreparesRequest /\ pc = "done" /\ DOMAIN MergedHeaders = {}
        /\ _verifyType(CallTypeModel)) =>
        /\ Thrown(result)
        /\ result.error = NotAuthenticatedError
        /\ requests = <<>>

\* C10, amended: an operation that prepares a request fails and issues no
\* request when the merged headers are empty; the error is
\* NotAuthenticatedError unless an earlier check fails (update of an
\* instance without id, a type that is neither Element nor ListElement).
\* A setup called by the fallback of setupMultiple does not get to its POST
\* with empty merged headers either.
C10_NotAuthenticated ==
    /\ (PreparesRequest /\ pc # "idle" /\ DOMAIN MergedHeaders = {}) =>
          /\ pc = "done"
          /\ Thrown(result)
          /\ requests = <<>>
          /\ minted = <<>>
          /\ result.error =
                IF call.op = "update" /\ call.id = <<>> THEN IdMissingError
                ELSE IF ~_verifyType(CallTypeModel) THEN TypeResolutionError
                ELSE NotAuthenticatedError
    /\ pc \in {"su_encrypt", "su_post"} =>
          DOMAIN ObjectAssign(su.authHeaders, su.extraHeaders) # {}

\* an update of an instance with an id has failed with
\* NotAuthenticatedError
C10_Witness ==
    /\ call.op = "update" /\ call.id # <<>> /\ pc = "done"
    /\ DOMAIN MergedHeaders = {}
    /\ Thrown(result) /\ result.error = NotAuthenticatedError
    /\ requests = <<>>

(***************************************************************************)
(* C11: every request handed to the transport carries a header v whose     *)
(* value is the version of the TypeModel of the type of the call, also     *)
(* when the authentication provider or the extra headers of the caller     *)
(* bring a v of their own.                                                 *)
(***************************************************************************)
C11_VersionHeaderOnEveryRequest ==
    \A k \in 1..Len(requests) :
        /\ "v" \in DOMAIN requests[k].headers
        /\ requests[k].headers["v"] = resolveTypeReference(call.typeRef).version

\* a request went out although the provider or the caller supplied another v
C11_Witness ==
    /\ Len(requests) > 0
    /\ LET given == ObjectAssign(IF call.op = "setup" THEN su.authHeaders ELSE call.authHeaders,
                                 call.extraHeaders)
       IN /\ "v" \in DOMAIN given
          /\ given["v"] # resolveTypeReference(call.typeRef).version

(***************************************************************************)
(* C12: in load, a SessionKeyNotFoundError of resolveSessionKey is not     *)
(* propagated: the instance is decrypted with a null key and the entity    *)
(* that is returned is flagged with _errors; any other error of            *)
(* resolveSessionKey is the error of the call, which returns no entity.    *)
(***************************************************************************)
C12_LoadDegradesOnMissingKey ==
    call.op = "load" =>
        \A k \in 1..Len(ld.log) :
            ld.log[k].step = "resolveSessionKey" =>
                /\ ld.log[k].output = SessionKeyNotFoundError =>
                       /\ ld.sessionKey = null
                       /\ ~Thrown(result)
                       /\ pc \in {"ld_decrypt", "ld_instance", "done"}
                       /\ pc = "done" =>
                              /\ Returned(result)
                              /\ Len(result.entities) = 1
                              /\ result.entities[1]._errors
                              /\ result.entities[1].id = expandId(call.id).elementId
                /\ ld.log[k].output \notin {"sessionKey", SessionKeyNotFoundError} =>
                       /\ pc = "done"
                       /\ Thrown(result)
                       /\ result.error = ld.log[k].output
                       /\ result.entities = <<>>

\* load returned a degraded entity after the key was not found
C12_Witness ==
    /\ call.op = "load"
    /\ Returned(result)
    /\ \E k \in 1..Len(ld.log) : /\ ld.log[k].step = "resolveSessionKey"
                                  /\ ld.log[k].output = SessionKeyNotFoundError
    /\ result.entities[1]._errors

\* the instance-level crypto pipelines in flight: the mappers of the
\* promiseMap calls of _handleLoadMultipleResult that have been called and
\* have not settled, and the one mapper or setup that setupMultiple is
\* waiting for while it encrypts
CryptoPipelinesInFlight ==
    Cardinality({j \in 1..Len(ld.stage) : ld.stage[j] \in Running})
        + (IF pc \in {"sm_encrypt", "su_encrypt"} THEN 1 ELSE 0)

ResolutionFailures ==
    {j \in 1..Len(ld.outcomes) : ld.outcomes[j] \notin {null, "sessionKey"}}

\* the call is loadRange or loadMultiple
BulkLoad == call.op \in {"loadRange", "loadMultiple"}

\* C13 as stated: a failure of the key resolution of a single instance, of
\* whatever kind, never aborts the batch
C13_Original ==
    (BulkLoad /\ Cardinality(ResolutionFailures) = 1) => ~Thrown(result)

(***************************************************************************)
(* C13, amended: in the bulk decode of loadRange and loadMultiple a        *)
(* SessionKeyNotFoundError of the key resolution of an instance never      *)
(* aborts the batch: the call returns one entity per instance of the       *)
(* answers, in their order, each decrypted, and exactly the instances      *)
(* whose key was not found are flagged with _errors.  The decoding fails   *)
(* only with another error of resolveSessionKey, which is the error of     *)
(* the call.                                                               *)
(***************************************************************************)
C13_MissingKeyDegradesOnlyItsInstance ==
    BulkLoad =>
        /\ \A j \in ResolutionFailures :
               ld.outcomes[j] = SessionKeyNotFoundError
                   \/ (Thrown(result) /\ result.error = ld.outcomes[j])
        /\ (Thrown(result) /\ Len(ld.stage) > 0) =>
               \E j \in ResolutionFailures :
                   /\ ld.outcomes[j] # SessionKeyNotFoundError
                   /\ result.error = ld.outcomes[j]
        /\ Returned(result) =>
               LET loaded == flat(ld.answers)
                   sessionKeys == [j \in 1..Len(loaded) |->
                                     IF ld.settled[j] = SessionKeyNotFoundError THEN null
                                     ELSE loaded[j].ownerKey]
               IN /\ Len(ld.settled) = Len(loaded)
                  /\ result.entities = _handleLoadMultipleResult(call.typeRef, loaded, sessionKeys)
                  /\ \A j \in 1..Len(loaded) :
                         /\ result.entities[j].id = loaded[j].id
                         /\ result.entities[j]._errors = (ld.settled[j] = SessionKeyNotFoundError)
                         /\ ~result.entities[j]._errors =>
                                result.entities[j].data = loaded[j].cipher.plain

\* a bulk load returned several instances, of which exactly one is degraded
C13_Witness ==
    /\ BulkLoad
    /\ Returned(result)
    /\ Len(result.entities) > 1
    /\ Cardinality({j \in 1..Len(result.entities) : result.entities[j]._errors}) = 1

\* the call in progress is load of the type of the k-th stored instance
\* with the id that setup returned for it
LoadsReturnedId(k) ==
    /\ call.op = "load"
    /\ call.typeRef = server[k].typeRef
    /\ call.id = <<server[k].id>>

\* the call in progress is load of the type of the k-th stored instance
\* with its id: the returned id, after the list id for an instance of a list
LoadsStored(k) ==
    /\ call.op = "load"
    /\ call.typeRef = server[k].typeRef
    /\ call.id = IF Truthy(server[k].listId) THEN <<server[k].listId, server[k].id>>
                 ELSE <<server[k].id>>

\* load returned an entity with the fields of the instance handed to setup
ReturnsTheInstance(k) ==
    /\ Returned(result)
    /\ Len(result.entities) = 1
    /\ result.entities[1].id = Instance(server[k].instance).id
    /\ result.entities[1].data = Instance(server[k].instance).data

\* C15 as stated: load(typeRef, returnedId) after setup yields the instance,
\* unless the transport or the resolver fails
C15_Original ==
    \A k \in 1..Len(server) :
        ( /\ LoadsReturnedId(k)
          /\ pc = "done"
          /\ result.error \notin RestErrors
          /\ \A n \in 1..Len(ld.log) :
                 ld.log[n].step = "resolveSessionKey" => ld.log[n].output = "sessionKey" )
            => ReturnsTheInstance(k)

(***************************************************************************)
(* C15, amended: setup(listId, instance) followed by load(typeRef, id),    *)
(* where id is the returned id for an Element type and the pair of the     *)
(* list id and the returned id for a ListElement type, against a server    *)
(* that stores what was posted, yields an entity with the fields of the    *)
(* original instance and without _errors, when the server answers the GET  *)
(* and the resolver returns the key minted at setup (the mapper decrypts   *)
(* what it encrypted under the same key; migrations leave the fields).     *)
(***************************************************************************)
C15_RoundTrip ==
    \A k \in 1..Len(server) :
        ( /\ LoadsStored(k)
          /\ pc = "done"
          /\ \E n \in 1..Len(ld.log) : ld.log[n].step = "GET"
          /\ ld.sessionKey = setNewOwnerEncSessionKey(server[k].instance) )
            => (ReturnsTheInstance(k) /\ ~result.entities[1]._errors)

\* load returned the second instance that was set up, an instance of a list
C15_Witness ==
    /\ Len(server) = 2
    /\ LoadsStored(2)
    /\ Truthy(server[2].listId)
    /\ ReturnsTheInstance(2)
    /\ ld.sessionKey = setNewOwnerEncSessionKey(server[2].instance)

\* the requests of the call with the method
RequestsOf(method) == {k \in 1..Len(requests) : requests[k].method = method}

\* C16 as stated, for an instance with an identity whose request has been
\* prepared: the call issues exactly one PUT
C16_Original ==
    (call.op = "update" /\ call.id # <<>> /\ prepared.error = null /\ pc = "done") =>
        Cardinality(RequestsOf("PUT")) = 1

(***************************************************************************)
(* C16, amended: update of an instance without identity fails before any   *)
(* type resolution, key resolution or transport request.  Update of an     *)
(* instance with an identity never calls setNewOwnerEncSessionKey and      *)
(* issues at most one request; when request preparation, resolveSessionKey *)
(* and the encryption succeed it issues exactly one request, a PUT to the  *)
(* path of the instance with the literal encrypted under the key that      *)
(* resolveSessionKey returned for the instance; when one of them fails the *)
(* call fails with that error and issues no request.                       *)
(***************************************************************************)
C16_Update ==
    call.op = "update" =>
        /\ minted = <<>>
        /\ call.id = <<>> =>
               /\ pc = "done"
               /\ Thrown(result)
               /\ result.error = IdMissingError
               /\ prepared = NoPrepared
               /\ ld = NoLd
               /\ requests = <<>>
        /\ call.id # <<>> =>
               /\ Len(requests) <= 1
               /\ \A k \in 1..Len(requests) :
                      /\ requests[k].method = "PUT"
                      /\ requests[k].path = prepared.path
                      /\ Len(ld.log) = 1
                      /\ ld.log[1] = Step("resolveSessionKey", UpdatedInstance(call.id), "sessionKey")
                      /\ ld.sessionKey = UpdatedInstance(call.id).ownerKey
                      /\ requests[k].body =
                             <<encryptAndMapToLiteral(prepared.typeModel, UpdatedInstance(call.id),
                                                      ld.sessionKey)>>
               /\ Returned(result) => Len(requests) = 1
               /\ (pc = "done" /\ requests = <<>>) =>
                      /\ Thrown(result)
                      /\ result.error \in {prepared.error, SessionKeyNotFoundError, CryptoError}
               /\ pc \in {"up_put", "done"} \/ requests = <<>>

\* update has issued its PUT and returned
C16_Witness ==
    /\ call.op = "update"
    /\ Returned(result)
    /\ Len(requests) = 1
    /\ requests[1].method = "PUT"

\* the list id and the element id the call in progress names
CallListId ==
    IF call.op \in {"load", "update", "erase"} /\ call.id # <<>>
    THEN expandId(call.id).listId ELSE call.listId

CallElementId ==
    IF call.op \in {"load", "update", "erase"} /\ call.id # <<>>
    THEN expandId(call.id).elementId ELSE null

\* the ids of the call that are present, the list id first
PresentIds == SelectSeq(<<CallListId, CallElementId>>, Truthy)

\* C17 as stated: the path starts with the namespace of the application
C17_Original ==
    \A k \in 1..Len(requests) :
        requests[k].path = <<call.typeRef.app, toLowerCase(call.typeRef.type)>> \o PresentIds

(***************************************************************************)
(* C17, amended: the resource path of every request is                     *)
(* /rest/<app-namespace>/<lowercased-type-name>, followed by /<listId>     *)
(* when a list id is present (not null and not empty) and then by          *)
(* /<elementId> when an element id is present, in that order and with      *)
(* nothing else before or between.                                         *)
(***************************************************************************)
C17_ResourcePath ==
    \A k \in 1..Len(requests) :
        requests[k].path =
            <<"rest", call.typeRef.app, toLowerCase(call.typeRef.type)>> \o PresentIds

\* a request went to an instance of a list: type, list id, element id
C17_Witness ==
    /\ Len(requests) > 0
    /\ Len(PresentIds) = 2
    /\ Len(requests[1].path) = 5
    /\ call.typeRef.type # toLowerCase(call.typeRef.type)

(***************************************************************************)
(* C18: entityEventsReceived returns the batch it was given, the same      *)
(* updates in the same order, issues no transport request and changes no   *)
(* state: nothing is prepared, resolved, minted or created.                *)
(***************************************************************************)
C18_EntityEventsPassThrough ==
    call.op = "entityEventsReceived" =>
        /\ pc = "done"
        /\ Returned(result)
        /\ result.batch = call.batch
        /\ requests = <<>>
        /\ prepared = NoPrepared
        /\ ld = NoLd /\ sm = NoSm /\ su = NoSu
        /\ minted = <<>> /\ created = <<>> /\ server = <<>>

\* a batch of two updates came back
C18_Witness ==
    /\ call.op = "entityEventsReceived"
    /\ Len(call.batch) = 2
    /\ result.batch = call.batch
    /\ Returned(result)

(***************************************************************************)
(* C19: in setupMultiple a call that fails with SetupMultipleError never   *)
(* surfaces the instances the server has created and never rolls them      *)
(* back: it returns no ids, no created instance is among failedInstances,  *)
(* every instance of a chunk whose POST succeeded is still on the server,  *)
(* and only POSTs were issued.  The witness shows that such a call is      *)
(* reachable with an instance created on the server.                       *)
(***************************************************************************)
C19_SuccessesNeitherSurfacedNorRolledBack ==
    (call.op = "setupMultiple" /\ Thrown(result) /\ result.error = SetupMultipleError) =>
        /\ result.ids = <<>>
        /\ Range(created) \cap Range(result.failedInstances) = {}
        /\ \A c \in 1..Len(chunkFate) :
               chunkFate[c] = "ok" => Range(instanceChunks[c]) \subseteq Range(created)
        /\ Len(server) = Len(created)
        /\ \A i \in Range(setupCalls) : i \notin failed => i \in Range(created)
        /\ \A k \in 1..Len(requests) : requests[k].method = "POST"

\* the call failed with SetupMultipleError; the server has created the
\* instances of a whole chunk and an instance of the fallback, none of which
\* is among failedInstances
C19_Witness ==
    /\ call.op = "setupMultiple"
    /\ Thrown(result)
    /\ result.error = SetupMultipleError
    /\ \E c \in 1..Len(chunkFate) : chunkFate[c] = "ok"
    /\ \E i \in Range(setupCalls) : i \in Range(created)
    /\ Range(created) # {}
    /\ Range(created) \cap Range(result.failedInstances) = {}
    /\ result.ids = <<>>

\* the collaborators of load in the order load calls them
LoadSteps ==
    <<"GET", "applyMigrations", "resolveSessionKey", "decryptAndMapToInstance",
      "applyMigrationsForInstance">>

(***************************************************************************)
(* C20: in load the steps run in this order for the one fetched payload:   *)
(* GET, applyMigrations on the raw payload, resolveSessionKey on the       *)
(* migrated payload, decryptAndMapToInstance on the migrated payload,      *)
(* applyMigrationsForInstance on the decrypted instance; a step starts     *)
(* after the one before it has completed, and the returned entity is the   *)
(* output of the last step.                                                *)
(***************************************************************************)
C20_LoadStepsInOrder ==
    call.op = "load" =>
        /\ Len(ld.log) <= Len(LoadSteps)
        /\ \A n \in 1..Len(ld.log) : ld.log[n].step = LoadSteps[n]
        /\ Len(ld.log) >= 1 => Len(requests) = 1 /\ requests[1].method = "GET"
        /\ Len(ld.log) >= 2 => ld.log[2].input = ld.log[1].output
        /\ Len(ld.log) >= 3 => ld.log[3].input = ld.log[2].output
        /\ Len(ld.log) >= 4 =>
               /\ ld.log[4].input = ld.log[2].output
               /\ ld.log[3].output \in {"sessionKey", SessionKeyNotFoundError}
               /\ ld.log[4].output._errors = (ld.log[3].output = SessionKeyNotFoundError)
        /\ Len(ld.log) >= 5 => ld.log[5].input = ld.log[4].output
        /\ Returned(result) =>
               /\ Len(ld.log) = 5
               /\ result.entities = <<ld.log[5].output>>
               /\ result.entities[1].migrated /\ result.entities[1].migratedInstance
        /\ Len(ld.log) = 5 => Returned(result)

\* load returned after its five steps
C20_Witness ==
    /\ call.op = "load"
    /\ Returned(result)
    /\ Len(ld.log) = 5
    /\ ld.log[5].step = "applyMigrationsForInstance"

\* the operations that issue one request and have no policy for its failure
SingleRequestOps == {"load", "loadRange", "setup", "update", "erase"}

\* the requests of a single setup: POSTs without the count of a batch
SinglePosts == {k \in 1..Len(requests) : "count" \notin DOMAIN requests[k].queryParams}

(***************************************************************************)
(* C21: a call of load, loadRange, setup, update or erase hands at most    *)
(* one request to the transport; when the transport rejects it, the call   *)
(* is over and has failed with the error of the transport, unchanged, and  *)
(* no second request was issued.  A setup called by the fallback of        *)
(* setupMultiple issues at most one request as well.                       *)
(***************************************************************************)
C21_TransportErrorsPropagate ==
    /\ Len(responses) = Len(requests)
    /\ call.op \in SingleRequestOps =>
          /\ Len(requests) <= 1
          /\ \A k \in 1..Len(responses) :
                 responses[k] # "ok" =>
                     /\ pc = "done"
                     /\ Thrown(result)
                     /\ result.error = responses[k]
    /\ call.op = "setupMultiple" => Cardinality(SinglePosts) <= Len(setupCalls)

\* the GET of a load was rejected by the transport and load has failed with
\* that error after its only request
C21_Witness ==
    /\ call.op = "load"
    /\ pc = "done"
    /\ requests # <<>>
    /\ responses = <<ConnectionError>>
    /\ Thrown(result)
    /\ result.error = ConnectionError

\* a request has been prepared
IsPrepared(p) == p.error = null /\ p.typeModel.type # null

\* the value the overlay of extra on auth gives the key
Overlaid(auth, extra, k) == IF k \in DOMAIN extra THEN extra[k] ELSE auth[k]

\* the prepared requests of the state with the headers they were prepared
\* from: the one of the operation, and the one of setup
PreparedRequests ==
    (IF call.op # "setup" /\ IsPrepared(prepared)
     THEN {[p |-> prepared, auth |-> call.authHeaders, extra |-> call.extraHeaders]}
     ELSE {})
    \cup (IF IsPrepared(su.prepared)
          THEN {[p |-> su.prepared, auth |-> su.authHeaders, extra |-> su.extraHeaders]}
          ELSE {})

\* C23 as stated: in the headers of a prepared request every key found in
\* the provider's headers or in the extra headers is sent with the value of
\* the overlay, the key v found in one of the two only included
C23_Original ==
    \A r \in PreparedRequests :
        \A k \in (DOMAIN r.auth) \cup (DOMAIN r.extra) :
            (k # "v" \/ ~(k \in DOMAIN r.auth /\ k \in DOMAIN r.extra)) =>
                /\ k \in DOMAIN r.p.headers
                /\ r.p.headers[k] = Overlaid(r.auth, r.extra, k)

(***************************************************************************)
(* C23, amended: the headers of a prepared request are the provider's      *)
(* headers overlaid with the caller's extra headers and then stamped with  *)
(* v.  Every key other than v that is in one of the two sets is sent, with *)
(* the value of the extra headers when they have the key and the value of  *)
(* the provider's headers otherwise; v is sent with the version of the     *)
(* type model, whether none, one or both of the sets have a v; no other    *)
(* key is sent.  The request handed to the transport carries these         *)
(* headers.                                                                *)
(***************************************************************************)
C23_HeadersAreAuthOverlaidWithExtra ==
    /\ \A r \in PreparedRequests :
          /\ DOMAIN r.p.headers = (DOMAIN r.auth) \cup (DOMAIN r.extra) \cup {"v"}
          /\ r.p.headers["v"] = r.p.typeModel.version
          /\ \A k \in ((DOMAIN r.auth) \cup (DOMAIN r.extra)) \ {"v"} :
                 r.p.headers[k] = Overlaid(r.auth, r.extra, k)
    /\ call.op \in SingleRequestOps =>
          \A k \in 1..Len(requests) :
              requests[k].headers =
                  (IF call.op = "setup" THEN su.prepared.headers ELSE prepared.headers)

\* a request went out with the access token of the extra headers, which
\* the provider's headers have as well, with another value
C23_Witness ==
    /\ call.op = "load"
    /\ Len(requests) = 1
    /\ "accessToken" \in (DOMAIN call.authHeaders) \cap (DOMAIN call.extraHeaders)
    /\ call.authHeaders["accessToken"] # call.extraHeaders["accessToken"]
    /\ requests[1].headers["accessToken"] = call.extraHeaders["accessToken"]

\* the accumulators errors and failedInstances are consistent
Consistent(input, errors, failedInstances) ==
    /\ Range(failedInstances) \subseteq Range(input)
    /\ \A i \in Range(input) : Count(failedInstances, i) <= 1
    /\ failedInstances # <<>> => Len(errors) >= 1
    /\ Len(errors) <= Len(failedInstances)

(***************************************************************************)
(* C25: in every state of a call of setupMultiple, every recorded failed   *)
(* instance is an instance of the input, no input instance is recorded as  *)
(* failed more than once, at least one error is recorded when a failed     *)
(* instance is, and there are never more errors than failed instances.     *)
(* The same holds of what the SetupMultipleError carries.                  *)
(***************************************************************************)
C25_AccumulatorsConsistent ==
    call.op = "setupMultiple" =>
        /\ Consistent(call.instances, sm.errors, sm.failedInstances)
        /\ Consistent(call.instances, result.errors, result.failedInstances)

\* in the middle of a call: a whole chunk has failed with one error for
\* its instances, and the fallback of a later chunk is running
C25_Witness ==
    /\ call.op = "setupMultiple"
    /\ pc = "sm_fallback"
    /\ Len(sm.errors) >= 1
    /\ Len(sm.failedInstances) > Len(sm.errors)

\* the request carries the values of instance i
Sends(k, i) == \E j \in 1..Len(requests[k].body) : requests[k].body[j].cipher.plain = Instance(i).data

\* the batch POSTs that carry instance i
BatchPostsOf(i) == {k \in 1..Len(requests) : k \notin SinglePosts /\ Sends(k, i)}

\* the POSTs of a single setup that carry instance i
SinglePostsOf(i) == {k \in SinglePosts : Sends(k, i)}

\* what holds of the POSTs in every state of a call of setupMultiple
PostsAreBounded ==
    call.op = "setupMultiple" =>
        /\ \A k \in 1..Len(requests) : requests[k].method = "POST"
        /\ \A i \in Range(call.instances) :
               /\ Cardinality(BatchPostsOf(i)) <= 1
               /\ Cardinality(SinglePostsOf(i)) <= 1
               /\ \A k \in SinglePostsOf(i) :
                      /\ BatchPostsOf(i) # {}
                      /\ \A b \in BatchPostsOf(i) :
                             b < k /\ responses[b] = PayloadTooLargeError
                      /\ responses[k] = PayloadTooLargeError =>
                             /\ Count(sm.failedInstances, i) = 1
                             /\ Cardinality(InstanceErrors(i)) = 1
                             /\ \A e \in InstanceErrors(i) :
                                    sm.errors[e].name = PayloadTooLargeError
                             /\ \A later \in 1..Len(requests) :
                                    later > k => ~Sends(later, i)
        /\ Len(requests) <= Len(instanceChunks) + Len(call.instances)

(***************************************************************************)
(* C24: every call of setupMultiple comes to its end, and each instance of *)
(* the input is sent in at most two POSTs: at most once in the batch POST  *)
(* of its chunk and at most once in a single setup of the fallback, which  *)
(* follows a batch POST answered with PayloadTooLargeError.  A             *)
(* PayloadTooLargeError answered to the POST of a single setup is recorded *)
(* as the failure of that instance, with one error, and the instance is    *)
(* not sent again.                                                         *)
(***************************************************************************)
C24_SetupMultipleTerminates ==
    /\ []PostsAreBounded
    /\ (pc # "idle") ~> (pc = "done")

\* the call is over; an instance was sent in the batch POST of its chunk
\* and again by the fallback, whose POST was answered with
\* PayloadTooLargeError as well, and the last chunk came after it
C24_Witness ==
    /\ call.op = "setupMultiple"
    /\ pc = "done"
    /\ Thrown(result)
    /\ \E i \in Range(call.instances) :
           /\ Cardinality(BatchPostsOf(i)) = 1
           /\ \E k \in SinglePostsOf(i) :
                  /\ responses[k] = PayloadTooLargeError
                  /\ k < Len(requests)
                  /\ i \in Range(result.failedInstances)

\* the ids the server generated for the instances of the call with locals c
OwnIds(c) ==
    {server[k].id : k \in {j \in 1..Len(server) : server[j].instance \in Range(c.call.instances)}}

\* the id the server generated for instance i
ServerIdOf(i) == server[CHOOSE k \in 1..Len(server) : server[k].instance = i].id

\* the chunks of the call with locals c whose batch attempt failed for good
FailedChunks(c) == {ch \in 1..Len(c.chunkFate) : c.chunkFate[ch] = "failed"}

\* what the call with locals c has collected and reports is its own
Isolated(c) ==
    c.call.op = "setupMultiple" =>
        /\ Range(c.sm.failedInstances) = c.failed
        /\ c.failed \subseteq Range(c.call.instances)
        /\ \A k \in 1..Len(c.sm.errors) :
               IF c.sm.errors[k].instance = 0
               THEN c.sm.errors[k].chunk \in FailedChunks(c)
               ELSE c.sm.errors[k].instance \in c.failed
        /\ Len(c.sm.errors) =
               Cardinality(FailedChunks(c))
                   + Cardinality({i \in Range(c.setupCalls) : i \in c.failed})
        /\ Range(flat(c.sm.idChunks)) \cup Range(FilterBoolean(c.sm.returnedIds))
               \subseteq OwnIds(c)
        /\ (c.pc = "done" /\ Thrown(c.result) /\ c.result.error = SetupMultipleError) =>
               /\ c.result.errors = c.sm.errors
               /\ c.result.errors # <<>>
               /\ c.result.failedInstances = c.sm.failedInstances
        /\ (c.pc = "done" /\ Returned(c.result)) =>
               /\ c.failed = {}
               /\ c.result.ids =
                      [k \in 1..Len(c.call.instances) |-> ServerIdOf(c.call.instances[k])]

(***************************************************************************)
(* C22: with two calls of setupMultiple on the same client, interleaved at *)
(* their awaits in every way, the errors and the failed instances each     *)
(* call collects and reports are those of its own chunks and instances,    *)
(* and the ids each call collects and returns are those the server         *)
(* generated for its own instances, in the order of its input.             *)
(***************************************************************************)
C22_ConcurrentCallsAreIsolated ==
    /\ Isolated(Context)
    /\ Isolated(other)

\* both calls are over: one has failed with its error and its instance,
\* the other has returned its id, and the POST of the second went out
\* between two POSTs of the first
C22_Witness ==
    /\ pc = "done" /\ call.op = "setupMultiple"
    /\ other.pc = "done" /\ other.call.op = "setupMultiple"
    /\ Thrown(result) /\ result.error = SetupMultipleError
    /\ result.errors # <<>>
    /\ Returned(other.result) /\ other.result.ids # <<>>
    /\ \E k1, k2, k3 \in 1..Len(requests) :
           /\ k1 < k2 /\ k2 < k3
           /\ \E i \in Range(call.instances) : Sends(k1, i) /\ Sends(k3, i)
           /\ \E i \in Range(other.call.instances) : Sends(k2, i)
====
